---- MODULE Spec2Model ----
(***************************************************************************)
(* Rate-Card-Calculator: the rate calculators, the currency conversion     *)
(* engine of the client (use-currency.tsx), the rate refresh of the server *)
(* (services/currency.ts, routes.ts) and the key/value catalog store       *)
(* (supabaseStorage.ts).                                                   *)
(*                                                                         *)
(* JavaScript numbers are IEEE-754 binary64.  The arithmetic of the code   *)
(* (times, divide, minus, Math.round, parseFloat) is modelled bit-exactly  *)
(* on 53-bit                                                               *)
(* mantissas; because TLC integers are 32 bits wide, a mantissa is kept as *)
(* a little-endian sequence of 14-bit limbs.                               *)
(***************************************************************************)
EXTENDS Integers, Sequences, FiniteSets, TLC

(***************************************************************************)
(* Natural numbers of arbitrary size: little-endian limb sequences without *)
(* leading (rightmost) zero limbs; <<>> is zero.                           *)
(***************************************************************************)
LimbBits == 7 * 2
BASE == 2^LimbBits
MantBits == 52 + 1

RECURSIVE BNNorm(_)
BNNorm(a) ==
  IF a = <<>> THEN <<>>
  ELSE IF a[Len(a)] = 0 THEN BNNorm(SubSeq(a, 1, Len(a) - 1))
  ELSE a

RECURSIVE BNFromInt(_)
BNFromInt(n) ==
  IF n = 0 THEN <<>> ELSE <<n % BASE>> \o BNFromInt(n \div BASE)

RECURSIVE BNToInt(_)
BNToInt(a) ==
  IF a = <<>> THEN 0 ELSE Head(a) + BASE * BNToInt(Tail(a))

BNHd(a) == IF a = <<>> THEN 0 ELSE Head(a)
BNTl(a) == IF a = <<>> THEN <<>> ELSE Tail(a)

RECURSIVE BNAddC(_, _, _)
BNAddC(a, b, c) ==
  IF a = <<>> /\ b = <<>> THEN (IF c = 0 THEN <<>> ELSE <<c>>)
  ELSE LET s == BNHd(a) + BNHd(b) + c
       IN  <<s % BASE>> \o BNAddC(BNTl(a), BNTl(b), s \div BASE)

BNAdd(a, b) == BNAddC(a, b, 0)

RECURSIVE BNSubB(_, _, _)
BNSubB(a, b, br) ==
  IF a = <<>> THEN <<>>
  ELSE LET d == Head(a) - BNHd(b) - br
       IN  <<IF d < 0 THEN d + BASE ELSE d>>
             \o BNSubB(Tail(a), BNTl(b), IF d < 0 THEN 1 ELSE 0)

\* a - b, for a >= b
BNSub(a, b) == BNNorm(BNSubB(a, b, 0))

RECURSIVE BNCmpFrom(_, _, _)
BNCmpFrom(a, b, i) ==
  IF i = 0 THEN 0
  ELSE IF a[i] > b[i] THEN 1
  ELSE IF a[i] < b[i] THEN -1
  ELSE BNCmpFrom(a, b, i - 1)

\* -1, 0, 1 as a < b, a = b, a > b
BNCmp(a, b) ==
  IF Len(a) > Len(b) THEN 1
  ELSE IF Len(a) < Len(b) THEN -1
  ELSE BNCmpFrom(a, b, Len(a))

RECURSIVE BNMulSmallC(_, _, _)
BNMulSmallC(a, k, c) ==
  IF a = <<>> THEN (IF c = 0 THEN <<>> ELSE <<c>>)
  ELSE LET p == Head(a) * k + c
       IN  <<p % BASE>> \o BNMulSmallC(Tail(a), k, p \div BASE)

\* a * k, for 0 <= k < BASE
BNMulSmall(a, k) == IF k = 0 THEN <<>> ELSE BNMulSmallC(a, k, 0)

RECURSIVE BNMul(_, _)
BNMul(a, b) ==
  IF a = <<>> \/ b = <<>> THEN <<>>
  ELSE BNAdd(BNMulSmall(a, Head(b)),
             LET r == BNMul(a, Tail(b)) IN IF r = <<>> THEN <<>> ELSE <<0>> \o r)

\* a * 2^n
BNShl(a, n) ==
  IF a = <<>> THEN <<>>
  ELSE [i \in 1..(n \div LimbBits) |-> 0] \o BNMulSmall(a, 2^(n % LimbBits))

RECURSIVE BNDivSmallFrom(_, _, _, _)
BNDivSmallFrom(a, k, i, r) ==
  IF i = 0 THEN <<>>
  ELSE LET x == r * BASE + a[i]
       IN  BNDivSmallFrom(a, k, i - 1, x % k) \o <<x \div k>>

\* floor(a / k), for 0 < k <= BASE
BNDivSmall(a, k) == BNNorm(BNDivSmallFrom(a, k, Len(a), 0))

\* floor(a / 2^n)
BNShr(a, n) ==
  IF n \div LimbBits >= Len(a) THEN <<>>
  ELSE BNDivSmall(SubSeq(a, (n \div LimbBits) + 1, Len(a)), 2^(n % LimbBits))

RECURSIVE IntBitLen(_)
IntBitLen(x) == IF x = 0 THEN 0 ELSE 1 + IntBitLen(x \div 2)

BNBitLen(a) ==
  IF a = <<>> THEN 0 ELSE LimbBits * (Len(a) - 1) + IntBitLen(a[Len(a)])

BNOdd(a) == a # <<>> /\ Head(a) % 2 = 1

(***************************************************************************)
(* Non-negative finite doubles: [m, e] is the number m * 2^e, where m is 0 *)
(* or has exactly MantBits bits.  Every value the code computes here is    *)
(* non-negative and far from the overflow and subnormal ranges.            *)
(***************************************************************************)
FZero == [m |-> <<>>, e |-> 0]

\* The double nearest to N * 2^e (+ a nonzero fraction of its last unit when
\* sticky), ties to even: the rounding every IEEE-754 operation ends with.
FNorm(N, e, sticky) ==
  IF N = <<>> THEN FZero
  ELSE LET L == BNBitLen(N) IN
    IF L <= MantBits
    THEN [m |-> BNShl(N, MantBits - L), e |-> e - (MantBits - L)]
    ELSE LET sh   == L - MantBits
             q    == BNShr(N, sh)
             r    == BNSub(N, BNShl(q, sh))
             c    == BNCmp(r, BNShl(<<1>>, sh - 1))
             up   == c > 0 \/ (c = 0 /\ (sticky \/ BNOdd(q)))
             q2   == IF up THEN BNAdd(q, <<1>>) ELSE q
         IN  IF BNBitLen(q2) > MantBits
             THEN [m |-> BNShr(q2, 1), e |-> e + sh + 1]
             ELSE [m |-> q2, e |-> e + sh]

\* an integer as a double (exact below 2^53)
FInt(n) == FNorm(BNFromInt(n), 0, FALSE)

\* a * b
FMul(a, b) == FNorm(BNMul(a.m, b.m), a.e + b.e, FALSE)

\* The next quotient limb of rem / d, where d has QuotLimbs limbs, its top
\* limb is at least BASE / 2 and rem < d * BASE: the estimate from the two
\* top limbs of rem is at most 2 too large and is corrected downwards.
RECURSIVE FDivFix(_, _, _)
FDivFix(rem, d, qhat) ==
  IF BNCmp(BNMulSmall(d, qhat), rem) > 0 THEN FDivFix(rem, d, qhat - 1) ELSE qhat

QuotLimbs == 4

FDivDigit(rem, d) ==
  LET top  == (IF Len(rem) > QuotLimbs THEN rem[QuotLimbs + 1] * BASE ELSE 0)
              + (IF Len(rem) >= QuotLimbs THEN rem[QuotLimbs] ELSE 0)
      est  == top \div d[QuotLimbs]
  IN  FDivFix(rem, d, IF est > BASE - 1 THEN BASE - 1 ELSE est)

\* long division: i more quotient limbs of rem / d, below the limbs q
RECURSIVE FDivLoop(_, _, _, _)
FDivLoop(rem, d, q, i) ==
  IF i = 0 THEN <<BNNorm(q), rem>>
  ELSE LET r2  == IF rem = <<>> THEN <<>> ELSE <<0>> \o rem
           dig == FDivDigit(r2, d)
       IN  FDivLoop(BNSub(r2, BNMulSmall(d, dig)), d, <<dig>> \o q, i - 1)

\* a / b, for b > 0
FDiv(a, b) ==
  IF a.m = <<>> THEN FZero
  ELSE LET sh == QuotLimbs * LimbBits - MantBits
           n  == BNShl(a.m, sh)
           d  == BNShl(b.m, sh)
           ge == BNCmp(n, d) >= 0
           qr == FDivLoop(IF ge THEN BNSub(n, d) ELSE n, d,
                          IF ge THEN <<1>> ELSE <<0>>, QuotLimbs)
       IN  FNorm(qr[1], a.e - b.e - QuotLimbs * LimbBits, qr[2] # <<>>)

\* a - b, for a >= b
FSub(a, b) ==
  IF b.m = <<>> THEN a
  ELSE LET emin == IF a.e < b.e THEN a.e ELSE b.e
       IN  FNorm(BNSub(BNShl(a.m, a.e - emin), BNShl(b.m, b.e - emin)), emin, FALSE)

\* Math.round(x) for x >= 0: floor(x + 1/2), computed exactly
MathRound(x) ==
  IF x.m = <<>> THEN 0
  ELSE IF x.e >= 0 THEN BNToInt(BNShl(x.m, x.e))
  ELSE BNToInt(BNShr(BNAdd(x.m, BNShl(<<1>>, (-x.e) - 1)), -x.e))

(***************************************************************************)
(* Decimal catalog values.  A multiplier is held in hundredths ("1.15" is  *)
(* 115), a currency rate in thousandths ("0.27" is 270, 0.272 is 272).     *)
(* parseFloat of the decimal text, a JSON number and a numeric literal all *)
(* denote the double nearest to the decimal.                               *)
(***************************************************************************)
MultScale == 10 * 10
RateScale == 10 * 10 * 10

parseFloatMult(h) == FDiv(FInt(h), FInt(MultScale))
parseFloatRate(t) == FDiv(FInt(t), FInt(RateScale))

\* round-half-up of the exact quotient num / den of two naturals, den > 0
ExactRound(num, den) == (2 * num + den) \div (2 * den)

(***************************************************************************)
(* Strings that carry numbers (option values, request fields) are digit    *)
(* sequences: "25" is <<2, 5>>, the empty string is <<>>.                  *)
(***************************************************************************)
\* the character '-' of such a string
MinusSign == 0 - 1

RECURSIVE parseDigits(_)
parseDigits(str) ==
  IF Len(str) = 1 THEN str[1]
  ELSE 10 * parseDigits(SubSeq(str, 1, Len(str) - 1)) + str[Len(str)]

\* parseInt of a non-empty string of digits with an optional sign
parseInt(str) ==
  IF Head(str) = MinusSign THEN 0 - parseDigits(Tail(str)) ELSE parseDigits(str)

\* Array.prototype.find by id, as the index of the first match (0: undefined)
findById(arr, id) ==
  IF \E i \in 1..Len(arr) : arr[i].id = id
  THEN CHOOSE i \in 1..Len(arr) :
         arr[i].id = id /\ \A j \in 1..(i - 1) : arr[j].id # id
  ELSE 0

\* Array.prototype.filter
RECURSIVE filterCategory(_, _)
filterCategory(arr, category) ==
  IF arr = <<>> THEN <<>>
  ELSE (IF Head(arr).category = category THEN <<Head(arr)>> ELSE <<>>)
         \o filterCategory(Tail(arr), category)

(***************************************************************************)
(* The catalog written by initializeData.                                  *)
(***************************************************************************)
regionsData ==
  << [id |-> "euro-asia",     multiplier |-> 100],
     [id |-> "middle-east",   multiplier |-> 115],
     [id |-> "europe",        multiplier |-> 130],
     [id |-> "north-america", multiplier |-> 140] >>

customRolesData ==
  << [id |-> "frontend-developer",  category |-> "custom", baseRate |-> 120],
     [id |-> "backend-developer",   category |-> "custom", baseRate |-> 130],
     [id |-> "fullstack-developer", category |-> "custom", baseRate |-> 140],
     [id |-> "devops-engineer",     category |-> "custom", baseRate |-> 150],
     [id |-> "data-scientist",      category |-> "custom", baseRate |-> 160],
     [id |-> "ui-ux-designer",      category |-> "custom", baseRate |-> 110],
     [id |-> "product-manager",     category |-> "custom", baseRate |-> 180],
     [id |-> "project-manager",     category |-> "custom", baseRate |-> 170],
     [id |-> "qa-engineer",         category |-> "custom", baseRate |-> 100],
     [id |-> "mobile-developer",    category |-> "custom", baseRate |-> 135] >>

swatRolesData ==
  << [id |-> "swat-frontend",     category |-> "swat", baseRate |-> 200],
     [id |-> "swat-backend",      category |-> "swat", baseRate |-> 220],
     [id |-> "swat-devops",       category |-> "swat", baseRate |-> 250],
     [id |-> "swat-architecture", category |-> "swat", baseRate |-> 300],
     [id |-> "swat-security",     category |-> "swat", baseRate |-> 280],
     [id |-> "swat-performance",  category |-> "swat", baseRate |-> 240] >>

rolesData == customRolesData \o swatRolesData

seniorityLevelsData ==
  << [id |-> "junior",    multiplier |-> 70],
     [id |-> "mid",       multiplier |-> 100],
     [id |-> "senior",    multiplier |-> 140],
     [id |-> "lead",      multiplier |-> 180],
     [id |-> "principal", multiplier |-> 220] >>

workloadOptionsData == << <<2, 5>>, <<5, 0>>, <<7, 5>>, <<1, 0, 0>> >>
durationOptionsData == << <<1>>, <<2>>, <<3>>, <<4>> >>

\* (mutation: the category filter is dropped, every role is served)
getRolesByCategory_Unfiltered(category) == rolesData

\* getRolesByCategory, over the roles record of the store
getRolesByCategory(category) == filterCategory(rolesData, category)

(***************************************************************************)
(* services/currency.ts: the rate source                                   *)
(***************************************************************************)
SupportedIds ==
  {"AED", "USD", "EUR", "GBP", "INR", "PKR", "CAD", "AUD", "JPY", "CHF", "CNY"}

\* the fallback constants, in thousandths
fallbackRates ==
  [id \in SupportedIds |->
     CASE id = "AED" -> 1000  [] id = "USD" -> 272   [] id = "EUR" -> 250
       [] id = "GBP" -> 215   [] id = "INR" -> 22500 [] id = "PKR" -> 75500
       [] id = "CAD" -> 370   [] id = "AUD" -> 410   [] id = "JPY" -> 40200
       [] id = "CHF" -> 240   [] id = "CNY" -> 1950]

\* conversion_rates objects the external source can answer with, per base:
\* units of each currency per 1 unit of the base (thousandths); a response
\* has keys outside the supported set and may lack supported ones
liveRates(baseCurrency) ==
  CASE baseCurrency = "AED" ->
         [id \in SupportedIds \cup {"SAR"} |->
            CASE id = "AED" -> 1000  [] id = "USD" -> 273   [] id = "EUR" -> 233
              [] id = "GBP" -> 201   [] id = "INR" -> 24100 [] id = "PKR" -> 76900
              [] id = "CAD" -> 381   [] id = "AUD" -> 419   [] id = "JPY" -> 40900
              [] id = "CHF" -> 217   [] id = "CNY" -> 1940  [] id = "SAR" -> 1021]
    [] baseCurrency = "USD" ->
         [id \in (SupportedIds \ {"PKR"}) \cup {"SAR"} |->
            CASE id = "AED" -> 3673  [] id = "USD" -> 1000  [] id = "EUR" -> 855
              [] id = "GBP" -> 738   [] id = "INR" -> 88500
              [] id = "CAD" -> 1397  [] id = "AUD" -> 1535  [] id = "JPY" -> 150100
              [] id = "CHF" -> 796   [] id = "CNY" -> 7120  [] id = "SAR" -> 3750]
    [] baseCurrency = "CHF" ->
         [id \in SupportedIds |->
            CASE id = "AED" -> 4614  [] id = "USD" -> 1256  [] id = "EUR" -> 1074
              [] id = "GBP" -> 927   [] id = "INR" -> 111200 [] id = "PKR" -> 355400
              [] id = "CAD" -> 1755  [] id = "AUD" -> 1928  [] id = "JPY" -> 188600
              [] id = "CHF" -> 1000  [] id = "CNY" -> 8943]

\* what can happen to the request to the external source
FetchFailures == {"network", "http-status", "malformed-json", "not-success", "no-rates"}
FetchOutcomes == {"success"} \cup FetchFailures

\* rates.X || fallback
orFallback(rates, id) ==
  IF id \in DOMAIN rates /\ rates[id] # 0 THEN rates[id] ELSE fallbackRates[id]

\* ids the source's answer may lack, and ids it may give as 0 (the store
\* keeps neither of them)
DroppedIds == {"PKR", "CAD", "CNY"}
ZeroedIds == {"AUD", "JPY"}

\* the conversion_rates object of a response for the given base: the live
\* rates without the ids of missing and with 0 for the ids of zeroed
conversionRates(baseCurrency, missing, zeroed) ==
  LET rates == liveRates(baseCurrency) IN
  [id \in (DOMAIN rates) \ missing |-> IF id \in zeroed THEN 0 ELSE rates[id]]

\* (mutation: the whole conversion_rates object is passed on, completed with
\* the fallback constants)
extractRates_AllKeys(rates) ==
  [id \in SupportedIds \cup DOMAIN rates |->
     IF id \in SupportedIds THEN orFallback(rates, id) ELSE rates[id]]

\* the object returned on success
extractRates(rates) == [id \in SupportedIds |-> orFallback(rates, id)]

\* the try block: its return value, or the throw of the failed step
fetchRates(response) ==
  IF response.outcome = "success"
  THEN [threw |-> FALSE, value |-> extractRates(response.conversion_rates)]
  ELSE [threw |-> TRUE, error |-> response.outcome]

\* (mutation: the catch block lets the error through to the caller)
updateExchangeRatesOn_Rethrow(response) ==
  LET attempt == fetchRates(response) IN
  IF attempt.threw THEN attempt ELSE attempt.value

\* try / catch: the fallback rates for every throw
updateExchangeRatesOn(response) ==
  LET attempt == fetchRates(response) IN
  IF attempt.threw THEN fallbackRates ELSE attempt.value

updateExchangeRates(baseCurrency, outcome) ==
  updateExchangeRatesOn([outcome |-> outcome,
                         conversion_rates |-> liveRates(baseCurrency)])

(***************************************************************************)
(* supabaseStorage.ts: the key/value store and the storage methods         *)
(***************************************************************************)
\* the currencies record written by initializeData (rates in thousandths; the
\* symbols are spelled out; the records have no baseCurrency property yet)
currenciesData ==
  << [id |-> "AED", name |-> "UAE Dirham",    symbol |-> "AED-sign", rate |-> 1000,
      baseCurrency |-> "undefined"],
     [id |-> "USD", name |-> "US Dollar",     symbol |-> "$",   rate |-> 270,
      baseCurrency |-> "undefined"],
     [id |-> "EUR", name |-> "Euro",          symbol |-> "EUR-sign", rate |-> 250,
      baseCurrency |-> "undefined"],
     [id |-> "GBP", name |-> "British Pound", symbol |-> "GBP-sign", rate |-> 210,
      baseCurrency |-> "undefined"],
     [id |-> "INR", name |-> "Indian Rupee",  symbol |-> "INR-sign", rate |-> 22500,
      baseCurrency |-> "undefined"] >>

\* updatedCurrencies of updateCurrencyRates: rates[currency.id] || currency.rate
updatedCurrencies(currencies, rates, baseCurrency) ==
  [i \in 1..Len(currencies) |->
     [currencies[i] EXCEPT
        !.rate = IF currencies[i].id \in DOMAIN rates /\ rates[currencies[i].id] # 0
                 THEN rates[currencies[i].id] ELSE currencies[i].rate,
        !.baseCurrency = baseCurrency]]

VARIABLES
  kvCurrencies,       \* kv_store record 'currencies'
  kvBaseCurrency,     \* kv_store record 'current_base_currency'
  update,             \* the POST /api/currencies/update-rates handlers in flight
  refreshes,          \* number of refresh requests received
  get,                \* the GET /api/currencies handler in flight
  currencyData,       \* CurrencyProvider: data of the /api/currencies query
  selectedCurrency,   \* CurrencyProvider: useState("AED")
  conversion          \* the last conversion call: its argument and its results

serverVars == <<kvCurrencies, kvBaseCurrency, update, refreshes, get>>
currencyVars == <<currencyData, selectedCurrency, conversion>>

\* getCurrencies: the record, or [] when the read fails
getCurrencies(readOk) == IF readOk THEN kvCurrencies ELSE <<>>

\* getCurrentBaseCurrency: the record, or 'AED' when the read fails
getCurrentBaseCurrency(readOk) == IF readOk THEN kvBaseCurrency ELSE "AED"

VARIABLES
  regions,            \* useCalculator: data of the /api/regions query
  customRoles,        \* useCalculator: data of the /api/roles/custom query
  swatRoles,          \* useCalculator: data of the /api/roles/swat query
  seniorityLevels,    \* useCalculator: data of the /api/seniority-levels query
  calculation         \* the last calculator call: its arguments and its result

calcVars == <<regions, customRoles, swatRoles, seniorityLevels, calculation>>

VARIABLES
  rateCall            \* the last call of updateExchangeRates: response and result

rateVars == <<rateCall>>

VARIABLES
  kvQuotes,           \* kv_store records 'quote_<id>', as the set of their values
  quote,              \* the POST /api/quotes handlers in flight
  quoteRequests,      \* number of create-quote requests received
  uuids,              \* the values randomUUID has returned so far
  now                 \* the server's clock

quoteVars == <<kvQuotes, quote, quoteRequests, uuids, now>>

VARIABLES
  sendQuote,          \* the POST /api/send-quote handler in flight
  emails              \* the calls of sendEmail so far, by their parameters

mailVars == <<sendQuote, emails>>

VARIABLES
  isInitialized,      \* CurrencyProvider: the children are rendered
  intervalCurrency,   \* selectedCurrency as the hourly updateRates captured it
                      \* at mount ("" before the mount effects have run)
  effectCurrency,     \* selectedCurrency at the last run of the change effect
  requests,           \* the client's update-rates requests in flight
  settled,            \* the update-rates request that settled last, and how
  stale               \* the /api/currencies query is invalidated, refetch due

clientVars == <<isInitialized, intervalCurrency, effectCurrency, requests, settled, stale>>

VARIABLES
  handoff             \* the last click on Send Quote or Export PDF and its effect

flowVars == <<handoff>>

VARIABLES
  kvCatalog           \* kv_store records regions, roles, seniority_levels, options

catalogVars == <<kvCatalog>>

(***************************************************************************)
(* use-calculator.ts                                                       *)
(***************************************************************************)
calculateCustomRate(regionId, roleId, seniorityId) ==
  LET region    == findById(regions, regionId)
      role      == findById(customRoles, roleId)
      seniority == findById(seniorityLevels, seniorityId)
  IN  IF region = 0 \/ role = 0 \/ seniority = 0
      THEN [baseRate |-> 0, regionalMultiplier |-> FZero,
            seniorityMultiplier |-> FZero, finalRate |-> 0]
      ELSE LET baseRate            == customRoles[role].baseRate
               regionalMultiplier  == parseFloatMult(regions[region].multiplier)
               seniorityMultiplier == parseFloatMult(seniorityLevels[seniority].multiplier)
           IN  [baseRate |-> baseRate,
                regionalMultiplier |-> regionalMultiplier,
                seniorityMultiplier |-> seniorityMultiplier,
                finalRate |-> MathRound(FMul(FMul(FInt(baseRate), regionalMultiplier),
                                             seniorityMultiplier))]

\* (mutation: the top tier starts above 4 months)
durationDiscountOf_Above4(duration) ==
  IF duration = 2 THEN 5
  ELSE IF duration = 3 THEN 10
  ELSE IF duration > 4 THEN 15
  ELSE 0

\* (mutation: 15% for exactly 4 months, nothing beyond)
durationDiscountOf_Only4(duration) ==
  IF duration = 2 THEN 5
  ELSE IF duration = 3 THEN 10
  ELSE IF duration = 4 THEN 15
  ELSE 0

\* the duration discount table of calculateSWATRate
durationDiscountOf(duration) ==
  IF duration = 2 THEN 5
  ELSE IF duration = 3 THEN 10
  ELSE IF duration >= 4 THEN 15
  ELSE 0

\* (mutation: the 20% discount itself taken as the factor)
SWATFactor_Discount == FDiv(FInt(2), FInt(10))

\* the literal 0.8 of the pre-negotiated SWAT discount
SWATFactor == FDiv(FInt(8), FInt(10))

\* (reordering: the 20% structural discount is applied, and rounded, before
\* the duration discount)
calculateSWATRate_DiscountFirst(roleId, workloadPercent, durationMonths, seniorityId) ==
  LET role      == findById(swatRoles, roleId)
      seniority == findById(seniorityLevels, seniorityId)
  IN  IF role = 0 \/ seniority = 0 \/ workloadPercent = <<>> \/ durationMonths = <<>>
      THEN [baseRate |-> 0, baseWithSeniority |-> 0, afterWorkload |-> 0,
            durationDiscount |-> 0, finalRate |-> 0]
      ELSE LET baseRate            == swatRoles[role].baseRate
               seniorityMultiplier == parseFloatMult(seniorityLevels[seniority].multiplier)
               workload            == FDiv(FInt(parseInt(workloadPercent)), FInt(100))
               duration            == parseInt(durationMonths)
               baseWithSeniority   == MathRound(FMul(FInt(baseRate), seniorityMultiplier))
               afterWorkload       == MathRound(FMul(FInt(baseWithSeniority), workload))
               durationDiscount    == durationDiscountOf(duration)
               afterSWATDiscount   == MathRound(FMul(FInt(afterWorkload), SWATFactor))
               finalRate ==
                 MathRound(FMul(FInt(afterSWATDiscount),
                                FSub(FInt(1), FDiv(FInt(durationDiscount), FInt(100)))))
           IN  [baseRate |-> baseRate, baseWithSeniority |-> baseWithSeniority,
                afterWorkload |-> afterWorkload, durationDiscount |-> durationDiscount,
                finalRate |-> finalRate]

\* (reordering: the workload percentage is applied, and rounded, before the
\* seniority multiplier)
calculateSWATRate_WorkloadFirst(roleId, workloadPercent, durationMonths, seniorityId) ==
  LET role      == findById(swatRoles, roleId)
      seniority == findById(seniorityLevels, seniorityId)
  IN  IF role = 0 \/ seniority = 0 \/ workloadPercent = <<>> \/ durationMonths = <<>>
      THEN [baseRate |-> 0, baseWithSeniority |-> 0, afterWorkload |-> 0,
            durationDiscount |-> 0, finalRate |-> 0]
      ELSE LET baseRate            == swatRoles[role].baseRate
               seniorityMultiplier == parseFloatMult(seniorityLevels[seniority].multiplier)
               workload            == FDiv(FInt(parseInt(workloadPercent)), FInt(100))
               duration            == parseInt(durationMonths)
               baseWithWorkload    == MathRound(FMul(FInt(baseRate), workload))
               afterSeniority      == MathRound(FMul(FInt(baseWithWorkload), seniorityMultiplier))
               durationDiscount    == durationDiscountOf(duration)
               afterDurationDiscount ==
                 MathRound(FMul(FInt(afterSeniority),
                                FSub(FInt(1), FDiv(FInt(durationDiscount), FInt(100)))))
               finalRate           == MathRound(FMul(FInt(afterDurationDiscount), SWATFactor))
           IN  [baseRate |-> baseRate, baseWithSeniority |-> baseWithWorkload,
                afterWorkload |-> afterSeniority, durationDiscount |-> durationDiscount,
                finalRate |-> finalRate]

\* (mutation: the guard looks at role and seniority only, a missing workload
\* counts as 100 and a missing duration as 1)
calculateSWATRate_DefaultedStrings(roleId, workloadPercent, durationMonths, seniorityId) ==
  LET role      == findById(swatRoles, roleId)
      seniority == findById(seniorityLevels, seniorityId)
  IN  IF role = 0 \/ seniority = 0
      THEN [baseRate |-> 0, baseWithSeniority |-> 0, afterWorkload |-> 0,
            durationDiscount |-> 0, finalRate |-> 0]
      ELSE LET baseRate            == swatRoles[role].baseRate
               seniorityMultiplier == parseFloatMult(seniorityLevels[seniority].multiplier)
               workload ==
                 FDiv(FInt(IF workloadPercent = <<>> THEN 100 ELSE parseInt(workloadPercent)),
                      FInt(100))
               duration == IF durationMonths = <<>> THEN 1 ELSE parseInt(durationMonths)
               baseWithSeniority   == MathRound(FMul(FInt(baseRate), seniorityMultiplier))
               afterWorkload       == MathRound(FMul(FInt(baseWithSeniority), workload))
               durationDiscount    == durationDiscountOf(duration)
               afterDurationDiscount ==
                 MathRound(FMul(FInt(afterWorkload),
                                FSub(FInt(1), FDiv(FInt(durationDiscount), FInt(100)))))
               finalRate           == MathRound(FMul(FInt(afterDurationDiscount), SWATFactor))
           IN  [baseRate |-> baseRate, baseWithSeniority |-> baseWithSeniority,
                afterWorkload |-> afterWorkload, durationDiscount |-> durationDiscount,
                finalRate |-> finalRate]

calculateSWATRate(roleId, workloadPercent, durationMonths, seniorityId) ==
  LET role      == findById(swatRoles, roleId)
      seniority == findById(seniorityLevels, seniorityId)
  IN  IF role = 0 \/ seniority = 0 \/ workloadPercent = <<>> \/ durationMonths = <<>>
      THEN [baseRate |-> 0, baseWithSeniority |-> 0, afterWorkload |-> 0,
            durationDiscount |-> 0, finalRate |-> 0]
      ELSE LET baseRate            == swatRoles[role].baseRate
               seniorityMultiplier == parseFloatMult(seniorityLevels[seniority].multiplier)
               workload            == FDiv(FInt(parseInt(workloadPercent)), FInt(100))
               duration            == parseInt(durationMonths)
               baseWithSeniority   == MathRound(FMul(FInt(baseRate), seniorityMultiplier))
               afterWorkload       == MathRound(FMul(FInt(baseWithSeniority), workload))
               durationDiscount    == durationDiscountOf(duration)
               afterDurationDiscount ==
                 MathRound(FMul(FInt(afterWorkload),
                                FSub(FInt(1), FDiv(FInt(durationDiscount), FInt(100)))))
               finalRate           == MathRound(FMul(FInt(afterDurationDiscount), SWATFactor))
           IN  [baseRate |-> baseRate, baseWithSeniority |-> baseWithSeniority,
                afterWorkload |-> afterWorkload, durationDiscount |-> durationDiscount,
                finalRate |-> finalRate]

\* swat-team-calculator.tsx: the discount label next to a duration option
\* (parseInt of the empty string is NaN, which no comparison accepts)
getDurationDiscount(value) ==
  IF value = <<>> THEN "No Discount"
  ELSE LET duration == parseInt(value) IN
    IF duration = 1 THEN "No Discount"
    ELSE IF duration = 2 THEN "-5% Discount"
    ELSE IF duration = 3 THEN "-10% Discount"
    ELSE IF duration >= 4 THEN "-15% Discount"
    ELSE "No Discount"

(***************************************************************************)
(* use-currency.tsx: the conversion engine                                 *)
(***************************************************************************)
NoData == [defined |-> FALSE]

\* currencyData?.currencies || []
currencies == IF currencyData.defined THEN currencyData.currencies ELSE <<>>

\* currencyData?.baseCurrency || 'AED'
currentBaseCurrency == IF currencyData.defined THEN currencyData.baseCurrency ELSE "AED"

\* (mutation: the AED-base branch divides by the rate)
convertFromAED_Divide(aedAmount) ==
  IF selectedCurrency = "AED" THEN aedAmount
  ELSE LET currency == findById(currencies, selectedCurrency) IN
    IF currency = 0 THEN aedAmount
    ELSE IF currentBaseCurrency = "AED"
    THEN MathRound(FDiv(FInt(aedAmount), parseFloatRate(currencies[currency].rate)))
    ELSE LET baseCurrencyData == findById(currencies, currentBaseCurrency) IN
      IF baseCurrencyData = 0 THEN aedAmount
      ELSE LET aedToBaseRate ==
                 FDiv(FInt(1), parseFloatRate(currencies[baseCurrencyData].rate))
               baseAmount == FMul(FInt(aedAmount), aedToBaseRate)
           IN  MathRound(FMul(baseAmount, parseFloatRate(currencies[currency].rate)))

\* (mutation: a base currency without a record is taken to have rate 1)
convertFromAED_MissingBaseAsOne(aedAmount) ==
  IF selectedCurrency = "AED" THEN aedAmount
  ELSE LET currency == findById(currencies, selectedCurrency) IN
    IF currency = 0 THEN aedAmount
    ELSE IF currentBaseCurrency = "AED"
    THEN MathRound(FMul(FInt(aedAmount), parseFloatRate(currencies[currency].rate)))
    ELSE LET baseCurrencyData == findById(currencies, currentBaseCurrency)
             aedToBaseRate ==
               IF baseCurrencyData = 0 THEN FInt(1)
               ELSE FDiv(FInt(1), parseFloatRate(currencies[baseCurrencyData].rate))
             baseAmount == FMul(FInt(aedAmount), aedToBaseRate)
         IN  MathRound(FMul(baseAmount, parseFloatRate(currencies[currency].rate)))

\* (mutation: the step from AED to the base multiplies by the base's rate)
convertFromAED_NoInverse(aedAmount) ==
  IF selectedCurrency = "AED" THEN aedAmount
  ELSE LET currency == findById(currencies, selectedCurrency) IN
    IF currency = 0 THEN aedAmount
    ELSE IF currentBaseCurrency = "AED"
    THEN MathRound(FMul(FInt(aedAmount), parseFloatRate(currencies[currency].rate)))
    ELSE LET baseCurrencyData == findById(currencies, currentBaseCurrency) IN
      IF baseCurrencyData = 0 THEN aedAmount
      ELSE LET aedToBaseRate == parseFloatRate(currencies[baseCurrencyData].rate)
               baseAmount == FMul(FInt(aedAmount), aedToBaseRate)
           IN  MathRound(FMul(baseAmount, parseFloatRate(currencies[currency].rate)))

convertFromAED(aedAmount) ==
  IF selectedCurrency = "AED" THEN aedAmount
  ELSE LET currency == findById(currencies, selectedCurrency) IN
    IF currency = 0 THEN aedAmount
    ELSE IF currentBaseCurrency = "AED"
    THEN MathRound(FMul(FInt(aedAmount), parseFloatRate(currencies[currency].rate)))
    ELSE LET baseCurrencyData == findById(currencies, currentBaseCurrency) IN
      IF baseCurrencyData = 0 THEN aedAmount
      ELSE LET aedToBaseRate ==
                 FDiv(FInt(1), parseFloatRate(currencies[baseCurrencyData].rate))
               baseAmount == FMul(FInt(aedAmount), aedToBaseRate)
           IN  MathRound(FMul(baseAmount, parseFloatRate(currencies[currency].rate)))

\* (mutation: multiplies by the rate, as convertFromAED does)
convertToAED_Multiply(amount, fromCurrency) ==
  IF fromCurrency = "AED" THEN amount
  ELSE LET currency == findById(currencies, fromCurrency) IN
    IF currency = 0 THEN amount
    ELSE MathRound(FMul(FInt(amount), parseFloatRate(currencies[currency].rate)))

convertToAED(amount, fromCurrency) ==
  IF fromCurrency = "AED" THEN amount
  ELSE LET currency == findById(currencies, fromCurrency) IN
    IF currency = 0 THEN amount
    ELSE MathRound(FDiv(FInt(amount), parseFloatRate(currencies[currency].rate)))

vars == <<serverVars, currencyVars, calcVars, rateVars, quoteVars,
         mailVars, clientVars, flowVars, catalogVars>>

(***************************************************************************)
(* routes.ts: the handlers, one step per await                             *)
(***************************************************************************)
Handlers == {1, 2}
MaxRefreshes == 2

\* base currencies a refresh request names; "" is a body without baseCurrency
RequestBases == {"", "AED", "USD", "CHF"}

IdleUpdate == [pc |-> "idle"]
IdleGet == [pc |-> "idle"]

NoCalculation == [kind |-> "none"]
NoConversion == [kind |-> "none"]

calcInit ==
  /\ regions = <<>>
  /\ customRoles = <<>>
  /\ swatRoles = <<>>
  /\ seniorityLevels = <<>>
  /\ calculation = NoCalculation

serverInit ==
  /\ kvCurrencies = currenciesData
  /\ kvBaseCurrency = "AED"
  /\ update = [h \in Handlers |-> IdleUpdate]
  /\ refreshes = 0
  /\ get = IdleGet

currencyInit ==
  /\ currencyData = NoData
  /\ selectedCurrency = "AED"
  /\ conversion = NoConversion

QuoteHandlers == {1, 2}

NoRateCall == [kind |-> "none"]
IdleQuote == [pc |-> "idle"]

rateInit == rateCall = NoRateCall

quoteInit ==
  /\ kvQuotes = {}
  /\ quote = [h \in QuoteHandlers |-> IdleQuote]
  /\ quoteRequests = 0
  /\ uuids = {}
  /\ now = 0

IdleSend == [pc |-> "idle", n |-> 0]
NoHandoff == [kind |-> "none"]
NoneSettled == [origin |-> "none"]

mailInit ==
  /\ sendQuote = IdleSend
  /\ emails = {}

clientInit ==
  /\ isInitialized = FALSE
  /\ intervalCurrency = ""
  /\ effectCurrency = ""
  /\ requests = {}
  /\ settled = NoneSettled
  /\ stale = FALSE

flowInit == handoff = NoHandoff

catalogInit ==
  kvCatalog = [regions |-> regionsData, roles |-> rolesData,
               seniority_levels |-> seniorityLevelsData,
               workload_options |-> workloadOptionsData,
               duration_options |-> durationOptionsData]

Init ==
  /\ serverInit /\ currencyInit /\ calcInit /\ rateInit /\ quoteInit
  /\ mailInit /\ clientInit /\ flowInit /\ catalogInit

\* (mutation: the base of the request is ignored)
baseCurrencyOf_AlwaysAED(body) == "AED"

\* const { baseCurrency = 'AED' } = req.body, with "" for a body without the field
baseCurrencyOf(body) == IF body = "" THEN "AED" ELSE body

\* (mutation: only the error of the first upsert is looked at)
updateCurrencyRatesThrows_FirstOnly(currenciesError, baseCurrencyError) == currenciesError

\* if (currenciesError || baseCurrencyError) throw new Error(...)
updateCurrencyRatesThrows(currenciesError, baseCurrencyError) ==
  currenciesError \/ baseCurrencyError

\* POST /api/currencies/update-rates arrives
UpdateRatesStart(h) ==
  \E body \in RequestBases :
    /\ update[h].pc \in {"idle", "done"}
    /\ refreshes < MaxRefreshes
    /\ refreshes' = refreshes + 1
    /\ update' = [update EXCEPT ![h] =
         [pc |-> "fetch", body |-> body, baseCurrency |-> baseCurrencyOf(body)]]
    /\ UNCHANGED <<kvCurrencies, kvBaseCurrency, get, currencyVars, calcVars,
                   rateVars, quoteVars,
                   mailVars, clientVars, flowVars, catalogVars>>

\* const rates = await updateExchangeRates(baseCurrency)
UpdateRatesFetch(h) ==
  \E outcome \in FetchOutcomes :
    /\ update[h].pc = "fetch"
    /\ update' = [update EXCEPT ![h] =
         [pc |-> "getCurrencies", body |-> update[h].body,
          baseCurrency |-> update[h].baseCurrency,
          rates |-> updateExchangeRates(update[h].baseCurrency, outcome)]]
    /\ UNCHANGED <<kvCurrencies, kvBaseCurrency, refreshes, get, currencyVars, calcVars,
                   rateVars, quoteVars,
                   mailVars, clientVars, flowVars, catalogVars>>

\* updateCurrencyRates: const currencies = await this.getCurrencies(), then the map
UpdateRatesGetCurrencies(h) ==
  \E readOk \in BOOLEAN :
    /\ update[h].pc = "getCurrencies"
    /\ update' = [update EXCEPT ![h] =
         [pc |-> "upsertCurrencies", body |-> update[h].body,
          baseCurrency |-> update[h].baseCurrency,
          rates |-> update[h].rates,
          updatedCurrencies |-> updatedCurrencies(getCurrencies(readOk), update[h].rates,
                                                  update[h].baseCurrency)]]
    /\ UNCHANGED <<kvCurrencies, kvBaseCurrency, refreshes, get, currencyVars, calcVars,
                   rateVars, quoteVars,
                   mailVars, clientVars, flowVars, catalogVars>>

\* updateCurrencyRates: the upsert of key 'currencies'
UpdateRatesUpsertCurrencies(h) ==
  \E writeOk \in BOOLEAN :
    /\ update[h].pc = "upsertCurrencies"
    /\ kvCurrencies' = IF writeOk THEN update[h].updatedCurrencies ELSE kvCurrencies
    /\ update' = [update EXCEPT ![h] =
         [pc |-> "upsertBaseCurrency", body |-> update[h].body,
          baseCurrency |-> update[h].baseCurrency,
          rates |-> update[h].rates,
          updatedCurrencies |-> update[h].updatedCurrencies,
          currenciesError |-> ~writeOk]]
    /\ UNCHANGED <<kvBaseCurrency, refreshes, get, currencyVars, calcVars,
                   rateVars, quoteVars,
                   mailVars, clientVars, flowVars, catalogVars>>

\* updateCurrencyRates: the upsert of key 'current_base_currency', the throw when
\* either upsert failed, and the handler's response (200, or 500 from the catch)
UpdateRatesUpsertBaseCurrency(h) ==
  \E writeOk \in BOOLEAN :
    /\ update[h].pc = "upsertBaseCurrency"
    /\ kvBaseCurrency' = IF writeOk THEN update[h].baseCurrency ELSE kvBaseCurrency
    /\ update' = [update EXCEPT ![h] =
         [pc |-> "done", body |-> update[h].body,
          baseCurrency |-> update[h].baseCurrency,
          rates |-> update[h].rates,
          updatedCurrencies |-> update[h].updatedCurrencies,
          currenciesError |-> update[h].currenciesError,
          baseCurrencyError |-> ~writeOk,
          status |-> IF updateCurrencyRatesThrows(update[h].currenciesError, ~writeOk)
                     THEN 500 ELSE 200]]
    /\ UNCHANGED <<kvCurrencies, refreshes, get, currencyVars, calcVars,
                   rateVars, quoteVars,
                   mailVars, clientVars, flowVars, catalogVars>>

\* GET /api/currencies: const currencies = await supabaseStorage.getCurrencies()
GetCurrenciesRead ==
  \E readOk \in BOOLEAN :
    /\ get.pc \in {"idle", "done"}
    /\ get' = [pc |-> "getCurrentBaseCurrency", currencies |-> getCurrencies(readOk),
               currenciesError |-> ~readOk]
    /\ UNCHANGED <<kvCurrencies, kvBaseCurrency, update, refreshes, currencyVars, calcVars,
                   rateVars, quoteVars,
                   mailVars, clientVars, flowVars, catalogVars>>

\* GET /api/currencies: const baseCurrency = await getCurrentBaseCurrency(), and
\* res.json({ currencies, baseCurrency }), which becomes the query data
GetCurrenciesRespond ==
  \E readOk \in BOOLEAN :
    /\ get.pc = "getCurrentBaseCurrency"
    /\ currencyData' = [defined |-> TRUE, currencies |-> get.currencies,
                        baseCurrency |-> getCurrentBaseCurrency(readOk)]
    /\ get' = [pc |-> "done", currenciesError |-> get.currenciesError,
               baseCurrencyError |-> ~readOk]
    /\ UNCHANGED <<kvCurrencies, kvBaseCurrency, update, refreshes,
                   selectedCurrency, conversion, calcVars,
                   rateVars, quoteVars,
                   mailVars, clientVars, flowVars, catalogVars>>

Next ==
  \/ \E h \in Handlers : UpdateRatesStart(h)
  \/ \E h \in Handlers : UpdateRatesFetch(h)
  \/ \E h \in Handlers : UpdateRatesGetCurrencies(h)
  \/ \E h \in Handlers : UpdateRatesUpsertCurrencies(h)
  \/ \E h \in Handlers : UpdateRatesUpsertBaseCurrency(h)
  \/ GetCurrenciesRead
  \/ GetCurrenciesRespond

Spec == Init /\ [][Next]_vars

(***************************************************************************)
(* Quotes: POST /api/quotes, insertQuoteSchema and createQuote.  The values *)
(* of a request body are JSON values tagged with their type; a number is   *)
(* n + frac/10.                                                            *)
(***************************************************************************)
JUndefined == [t |-> "undefined"]
JString(s) == [t |-> "string", s |-> s]
JNumber(n, frac) == [t |-> "number", n |-> n, frac |-> frac]
JObject(o) == [t |-> "object", o |-> o]
JUuid(u) == [t |-> "string", uuid |-> u]
JTime(time) == [t |-> "string", iso |-> time]

MaxQuotes == 2
MaxClock == 1

\* the values randomUUID draws from
UUIDs == 1..(MaxQuotes + 1)

\* the columns of the quotes table: text, jsonb and integer, all notNull
isText(v) == v.t = "string"
isJsonb(v) == v.t # "undefined"
isInteger(v) == v.t = "number" /\ v.frac = 0

\* (mutation: unknown keys of the body are kept, as with .passthrough())
insertQuoteSchemaParse_Passthrough(body) ==
  IF /\ isText(body.type)
     /\ isJsonb(body.configuration)
     /\ isInteger(body.finalRate)
     /\ isText(body.currency)
  THEN [success |-> TRUE,
        data |-> [k \in {f \in DOMAIN body : body[f] # JUndefined} |-> body[k]]]
  ELSE [success |-> FALSE]

\* (mutation: finalRate is checked to be a number only)
insertQuoteSchemaParse_AnyNumber(body) ==
  IF /\ isText(body.type)
     /\ isJsonb(body.configuration)
     /\ body.finalRate.t = "number"
     /\ isText(body.currency)
  THEN [success |-> TRUE,
        data |-> [type |-> body.type, configuration |-> body.configuration,
                  finalRate |-> body.finalRate, currency |-> body.currency]]
  ELSE [success |-> FALSE]

\* insertQuoteSchema.parse: the insert schema of quotes without id and
\* createdAt; keys the schema does not have are dropped from the result
insertQuoteSchemaParse(body) ==
  IF /\ isText(body.type)
     /\ isJsonb(body.configuration)
     /\ isInteger(body.finalRate)
     /\ isText(body.currency)
  THEN [success |-> TRUE,
        data |-> [type |-> body.type, configuration |-> body.configuration,
                  finalRate |-> body.finalRate, currency |-> body.currency]]
  ELSE [success |-> FALSE]

\* createQuote: { id: randomUUID(), ...quote, createdAt: new Date().toISOString() }
newQuote(uuid, quoteData, time) ==
  [k \in {"id", "createdAt"} \cup DOMAIN quoteData |->
     IF k = "createdAt" THEN JTime(time)
     ELSE IF k \in DOMAIN quoteData THEN quoteData[k]
     ELSE JUuid(uuid)]

\* (mutation: every quote is stored under the one key 'quote')
upsertQuote_SingleKey(records, value) == {value}

\* upsert of { key: `quote_${newQuote.id}`, value: newQuote }
upsertQuote(records, value) == {q \in records : q.id # value.id} \cup {value}

\* a well-formed request body, as the calculators' send-quote code builds it
validBody ==
  [type |-> JString("custom"), configuration |-> JObject("selections"),
   finalRate |-> JNumber(193, 0), currency |-> JString("AED"), id |-> JUndefined]

\* request bodies: the well-formed one, each field in turn missing or of the
\* wrong kind, the empty body, and each of them with an id of the client's
QuoteBodies ==
  LET faulty ==
        {validBody, [validBody EXCEPT !.type = JString("swat"), !.finalRate = JNumber(72, 0)]}
          \cup {[validBody EXCEPT !.type = v] : v \in {JUndefined, JNumber(1, 0)}}
          \cup {[validBody EXCEPT !.configuration = JUndefined]}
          \cup {[validBody EXCEPT !.finalRate = v] :
                  v \in {JUndefined, JNumber(193, 5), JString("193")}}
          \cup {[validBody EXCEPT !.currency = v] : v \in {JUndefined, JNumber(1, 0)}}
          \cup {[type |-> JUndefined, configuration |-> JUndefined,
                  finalRate |-> JUndefined, currency |-> JUndefined, id |-> JUndefined]}
  IN  faulty \cup {[b EXCEPT !.id = JUuid(1)] : b \in faulty}

\* (mutation: randomUUID may return a value it has returned before)
randomUUID_Repeating == UUIDs

\* randomUUID: version 4 UUIDs, 122 random bits; the values drawn are taken
\* to be pairwise distinct
randomUUID == UUIDs \ uuids

\* POST /api/quotes arrives: insertQuoteSchema.parse(req.body); a ZodError goes
\* to the catch (400); otherwise createQuote builds newQuote and starts the upsert
QuoteStart(h) ==
  \E body \in QuoteBodies, uuid \in randomUUID :
    LET parsed == insertQuoteSchemaParse(body) IN
    /\ quote[h].pc \in {"idle", "done"}
    /\ quoteRequests < MaxQuotes
    /\ quoteRequests' = quoteRequests + 1
    /\ IF parsed.success
       THEN /\ quote' = [quote EXCEPT ![h] =
                 [pc |-> "upsert", body |-> body,
                  newQuote |-> newQuote(uuid, parsed.data, now)]]
            /\ uuids' = uuids \cup {uuid}
       ELSE /\ quote' = [quote EXCEPT ![h] =
                 [pc |-> "done", body |-> body, error |-> FALSE, status |-> 400,
                  response |-> [message |-> "Invalid quote data"]]]
            /\ uuids' = uuids
    /\ UNCHANGED <<kvQuotes, now, serverVars, currencyVars, calcVars, rateVars,
                   mailVars, clientVars, flowVars, catalogVars>>

\* createQuote: the upsert answers; on an error createQuote throws and the
\* route's catch answers 400, otherwise the route answers 201 with newQuote
QuoteUpsert(h) ==
  \E writeOk \in BOOLEAN :
    /\ quote[h].pc = "upsert"
    /\ kvQuotes' = IF writeOk THEN upsertQuote(kvQuotes, quote[h].newQuote) ELSE kvQuotes
    /\ quote' = [quote EXCEPT ![h] =
         IF writeOk
         THEN [pc |-> "done", body |-> quote[h].body, error |-> FALSE, status |-> 201,
               response |-> quote[h].newQuote]
         ELSE [pc |-> "done", body |-> quote[h].body, error |-> TRUE, status |-> 400,
               response |-> [message |-> "Invalid quote data"]]]
    /\ UNCHANGED <<quoteRequests, uuids, now, serverVars, currencyVars, calcVars, rateVars,
                   mailVars, clientVars, flowVars, catalogVars>>

\* time passes on the server
Tick ==
  /\ now < MaxClock
  /\ now' = now + 1
  /\ UNCHANGED <<kvQuotes, quote, quoteRequests, uuids, serverVars, currencyVars,
                 calcVars, rateVars,
                   mailVars, clientVars, flowVars, catalogVars>>

InitQuotes == Init

NextQuotes ==
  \/ \E h \in QuoteHandlers : QuoteStart(h)
  \/ \E h \in QuoteHandlers : QuoteUpsert(h)
  \/ Tick

SpecQuotes == InitQuotes /\ [][NextQuotes]_vars

\* ---------------------------------------------------------------------------
\* POST /api/send-quote (routes.ts) and sendEmail
\* ---------------------------------------------------------------------------

JNull == [t |-> "null"]

MaxSends == 2

\* the values of JavaScript that count as false in a condition
isFalsy(v) ==
  \/ v.t \in {"undefined", "null"}
  \/ v = JString("")
  \/ v = JNumber(0, 0)

\* (mutation: the check leaves quoteData out)
missingRequiredFields_NoQuoteData(body) ==
  isFalsy(body.recipientEmail) \/ isFalsy(body.senderName)

\* !recipientEmail || !senderName || !quoteData
missingRequiredFields(body) ==
  isFalsy(body.recipientEmail) \/ isFalsy(body.senderName) \/ isFalsy(body.quoteData)

\* the quoteData a calculator hands over, by its type, and an object without
\* configuration
customQuoteData == JObject("custom")
swatQuoteData == JObject("swat")
emptyQuoteData == JObject("empty")

\* generateQuoteEmailHTML reads configuration.role and finalRate.toLocaleString():
\* it throws a TypeError unless quoteData has a configuration and a finalRate
generateQuoteEmailHTMLThrows(quoteData) == quoteData \notin {customQuoteData, swatQuoteData}

\* the parameters the route passes to sendEmail
emailParams(body) ==
  [to |-> body.recipientEmail,
   from |-> "noreply@ratecard.com",
   subject |-> IF body.quoteData = customQuoteData
               THEN "Rate Card Quote - Custom Resource"
               ELSE "Rate Card Quote - SWAT Team",
   senderName |-> body.senderName,
   message |-> body.message,
   quoteData |-> body.quoteData]

\* request bodies: every field present, missing, null or empty
SendBodies ==
  [recipientEmail : {JUndefined, JNull, JString(""), JString("client@example.com")},
   senderName : {JUndefined, JNull, JString(""), JString("Sender")},
   message : {JUndefined, JString("note")},
   quoteData : {JUndefined, JNull, customQuoteData, swatQuoteData, emptyQuoteData}]

\* the handler up to the call of sendEmail: the check of the required fields
\* (400), then the arguments of sendEmail, whose evaluation may throw (500
\* from the catch)
SendQuoteStart ==
  \E body \in SendBodies :
    /\ sendQuote.pc \in {"idle", "done"}
    /\ sendQuote.n < MaxSends
    /\ sendQuote' =
         IF missingRequiredFields(body)
         THEN [pc |-> "done", n |-> sendQuote.n + 1, body |-> body, status |-> 400,
               message |-> "Missing required fields"]
         ELSE IF generateQuoteEmailHTMLThrows(body.quoteData)
         THEN [pc |-> "done", n |-> sendQuote.n + 1, body |-> body, status |-> 500,
               message |-> "Failed to send quote"]
         ELSE [pc |-> "sendEmail", n |-> sendQuote.n + 1, body |-> body]
    /\ UNCHANGED <<emails, serverVars, currencyVars, calcVars, rateVars, quoteVars,
                   clientVars, flowVars, catalogVars>>

\* sendEmail: mailService.send answers or throws; sendEmail returns true or
\* false and the handler answers 200 or 500
SendQuoteSendEmail ==
  \E sent \in BOOLEAN :
    /\ sendQuote.pc = "sendEmail"
    /\ emails' = emails \cup {[request |-> sendQuote.n, params |-> emailParams(sendQuote.body)]}
    /\ sendQuote' =
         IF sent
         THEN [pc |-> "done", n |-> sendQuote.n, body |-> sendQuote.body, status |-> 200,
               message |-> "Quote sent successfully"]
         ELSE [pc |-> "done", n |-> sendQuote.n, body |-> sendQuote.body, status |-> 500,
               message |-> "Failed to send email"]
    /\ UNCHANGED <<serverVars, currencyVars, calcVars, rateVars, quoteVars,
                   clientVars, flowVars, catalogVars>>

InitSend == Init

NextSend ==
  \/ SendQuoteStart
  \/ SendQuoteSendEmail

SpecSend == InitSend /\ [][NextSend]_vars

(***************************************************************************)
(* One refresh request followed to its response.  The steps after the      *)
(* fetch are awaits on the store, which answers (with data or an error),   *)
(* so each is taken once it is enabled.  The fetch is an await on the      *)
(* external source: the call passes no signal and starts no timer, so      *)
(* nothing in the program makes that step happen.                          *)
(***************************************************************************)
InitRefresh == Init

NextRefresh ==
  \/ UpdateRatesStart(1)
  \/ UpdateRatesFetch(1)
  \/ UpdateRatesGetCurrencies(1)
  \/ UpdateRatesUpsertCurrencies(1)
  \/ UpdateRatesUpsertBaseCurrency(1)

SpecRefresh ==
  /\ InitRefresh
  /\ [][NextRefresh]_vars
  /\ WF_vars(UpdateRatesGetCurrencies(1))
  /\ WF_vars(UpdateRatesUpsertCurrencies(1))
  /\ WF_vars(UpdateRatesUpsertBaseCurrency(1))

\* identifiers and option strings a calculator component can be called with
RegionIds    == {regionsData[i].id : i \in 1..Len(regionsData)} \cup {"", "unknown"}
CustomRoleIds ==
  {customRolesData[i].id : i \in 1..Len(customRolesData)}
    \cup {"", "unknown", "swat-frontend"}
SwatRoleIds ==
  {swatRolesData[i].id : i \in 1..Len(swatRolesData)}
    \cup {"", "unknown", "frontend-developer"}
SeniorityIds ==
  {seniorityLevelsData[i].id : i \in 1..Len(seniorityLevelsData)} \cup {"", "unknown"}
WorkloadStrings ==
  {workloadOptionsData[i] : i \in 1..Len(workloadOptionsData)} \cup {<<>>, <<7, 0>>}
DurationStrings ==
  {durationOptionsData[i] : i \in 1..Len(durationOptionsData)}
    \cup {<<>>, <<0>>, <<1, 0>>, <<MinusSign, 2>>}

InitCalc == Init

\* the four catalog queries of useCalculator resolve (a failed store read
\* makes the storage method return []); the components render again
LoadRegions ==
  /\ regions' \in {kvCatalog.regions, <<>>}
  /\ calculation' = NoCalculation
  /\ UNCHANGED <<customRoles, swatRoles, seniorityLevels, serverVars, currencyVars,
                   rateVars, quoteVars,
                   mailVars, clientVars, flowVars, catalogVars>>

LoadCustomRoles ==
  /\ customRoles' \in {getRolesByCategory("custom"), <<>>}
  /\ calculation' = NoCalculation
  /\ UNCHANGED <<regions, swatRoles, seniorityLevels, serverVars, currencyVars,
                   rateVars, quoteVars,
                   mailVars, clientVars, flowVars, catalogVars>>

LoadSwatRoles ==
  /\ swatRoles' \in {getRolesByCategory("swat"), <<>>}
  /\ calculation' = NoCalculation
  /\ UNCHANGED <<regions, customRoles, seniorityLevels, serverVars, currencyVars,
                   rateVars, quoteVars,
                   mailVars, clientVars, flowVars, catalogVars>>

LoadSeniorityLevels ==
  /\ seniorityLevels' \in {seniorityLevelsData, <<>>}
  /\ calculation' = NoCalculation
  /\ UNCHANGED <<regions, customRoles, swatRoles, serverVars, currencyVars,
                   rateVars, quoteVars,
                   mailVars, clientVars, flowVars, catalogVars>>

\* CustomResourceCalculator renders: calculateCustomRate(region, role, seniority)
CalcCustom ==
  \E regionId \in RegionIds, roleId \in CustomRoleIds, seniorityId \in SeniorityIds :
    /\ calculation = NoCalculation
    /\ calculation' = [kind |-> "custom", regionId |-> regionId, roleId |-> roleId,
                       seniorityId |-> seniorityId,
                       result |-> calculateCustomRate(regionId, roleId, seniorityId)]
    /\ UNCHANGED <<regions, customRoles, swatRoles, seniorityLevels, serverVars, currencyVars,
                   rateVars, quoteVars,
                   mailVars, clientVars, flowVars, catalogVars>>

\* SWATTeamCalculator renders: calculateSWATRate(role, workload, duration, seniority)
CalcSWAT ==
  \E roleId \in SwatRoleIds, workloadPercent \in WorkloadStrings,
     durationMonths \in DurationStrings, seniorityId \in SeniorityIds :
    /\ calculation = NoCalculation
    /\ calculation' = [kind |-> "swat", roleId |-> roleId,
                       workloadPercent |-> workloadPercent,
                       durationMonths |-> durationMonths, seniorityId |-> seniorityId,
                       durationLabel |-> getDurationDiscount(durationMonths),
                       result |-> calculateSWATRate(roleId, workloadPercent,
                                                    durationMonths, seniorityId)]
    /\ UNCHANGED <<regions, customRoles, swatRoles, seniorityLevels, serverVars, currencyVars,
                   rateVars, quoteVars,
                   mailVars, clientVars, flowVars, catalogVars>>

NextCalc ==
  \/ LoadRegions
  \/ LoadCustomRoles
  \/ LoadSwatRoles
  \/ LoadSeniorityLevels
  \/ CalcCustom
  \/ CalcSWAT

SpecCalc == InitCalc /\ [][NextCalc]_vars

\* ---------------------------------------------------------------------------
\* calculateSWATRate over every workload percentage and a range of durations
\* ---------------------------------------------------------------------------
FullWorkload == 100
MaxDuration == 5

\* the decimal string of a natural number, as the caller passes it
RECURSIVE toDigits(_)
toDigits(n) == IF n < 10 THEN <<n>> ELSE Append(toDigits(n \div 10), n % 10)

InitSWAT == Init

\* SWATTeamCalculator: the user picks a role and a seniority of the loaded lists
SelectSWAT ==
  \E r \in 1..Len(swatRoles), l \in 1..Len(seniorityLevels) :
    /\ calculation = NoCalculation
    /\ calculation' = [kind |-> "selected", roleId |-> swatRoles[r].id,
                       seniorityId |-> seniorityLevels[l].id]
    /\ UNCHANGED <<regions, customRoles, swatRoles, seniorityLevels, serverVars, currencyVars,
                   rateVars, quoteVars, mailVars, clientVars, flowVars, catalogVars>>

\* one call of calculateSWATRate with the role and seniority picked, beside the
\* calls with one percent more workload and with one month more
SweepSWAT ==
  \E workload \in 0..FullWorkload, duration \in 1..MaxDuration :
    LET roleId == calculation.roleId
        seniorityId == calculation.seniorityId
        more == IF workload < FullWorkload THEN workload + 1 ELSE workload
    IN
    /\ calculation.kind = "selected"
    /\ calculation' =
         [kind |-> "sweep", roleId |-> roleId, seniorityId |-> seniorityId,
          workload |-> workload, duration |-> duration,
          result |-> calculateSWATRate(roleId, toDigits(workload), toDigits(duration),
                                       seniorityId),
          moreWorkload |-> calculateSWATRate(roleId, toDigits(more), toDigits(duration),
                                             seniorityId),
          longer |-> calculateSWATRate(roleId, toDigits(workload), toDigits(duration + 1),
                                       seniorityId)]
    /\ UNCHANGED <<regions, customRoles, swatRoles, seniorityLevels, serverVars, currencyVars,
                   rateVars, quoteVars, mailVars, clientVars, flowVars, catalogVars>>

NextSWAT ==
  \/ LoadSwatRoles
  \/ LoadSeniorityLevels
  \/ SelectSWAT
  \/ SweepSWAT

SpecSWAT == InitSWAT /\ [][NextSWAT]_vars

\* ---------------------------------------------------------------------------
\* The store under all its writers and readers: one update-rates handler, one
\* quote handler and the catalog query /api/regions
\* ---------------------------------------------------------------------------
InitStore == Init

\* the requests the store has been sent, of both kinds
MaxStoreRequests == 2
storeRequests == refreshes + quoteRequests

StoreUpdateRatesStart == storeRequests < MaxStoreRequests /\ UpdateRatesStart(1)
StoreQuoteStart == storeRequests < MaxStoreRequests /\ QuoteStart(1)

NextStore ==
  \/ StoreUpdateRatesStart
  \/ UpdateRatesFetch(1)
  \/ UpdateRatesGetCurrencies(1)
  \/ UpdateRatesUpsertCurrencies(1)
  \/ UpdateRatesUpsertBaseCurrency(1)
  \/ StoreQuoteStart
  \/ QuoteUpsert(1)
  \/ LoadRegions

SpecStore == InitStore /\ [][NextStore]_vars

(***************************************************************************)
(* The conversion engine against every answer the server can give          *)
(***************************************************************************)
MaxAmount == 40

\* AED amounts handed to convertFromAED: small ones and calculator results
QuoteAmounts == {72, 193, 241, 554, 660}
Amounts == 0..MaxAmount \cup QuoteAmounts

\* the values the 'currencies' record of the store can take: the initial one,
\* one per refresh (all five stored ids are rewritten), and [] after a refresh
\* whose read of the record failed
StoreBases == {"AED", "USD", "CHF"}
storeTables ==
  {currenciesData, <<>>} \cup
  {updatedCurrencies(currenciesData, updateExchangeRates(b, o), b) :
     b \in StoreBases, o \in {"success", "network"}}

\* the answers of GET /api/currencies
serverResponses ==
  {[defined |-> TRUE, currencies |-> t, baseCurrency |-> b] :
     t \in storeTables, b \in StoreBases}

InitConv == Init

\* the /api/currencies query resolves (first load, or after invalidateQueries)
\* and the effect that sets isInitialized once a non-empty list has arrived
CurrenciesFetched ==
  /\ currencyData' \in serverResponses
  /\ conversion' = NoConversion
  /\ isInitialized' = (isInitialized \/ Len(currencyData'.currencies) > 0)
  /\ stale' = FALSE
  /\ UNCHANGED <<selectedCurrency, intervalCurrency, effectCurrency, requests, settled,
                 serverVars, calcVars, rateVars, quoteVars,
                 mailVars, flowVars, catalogVars>>

\* Header: the currency selector offers the ids of the loaded list
SetSelectedCurrency ==
  \E i \in 1..Len(currencies) :
    /\ selectedCurrency' = currencies[i].id
    /\ conversion' = NoConversion
    /\ UNCHANGED <<currencyData, serverVars, calcVars,
                   rateVars, quoteVars,
                   mailVars, clientVars, flowVars, catalogVars>>

\* useCurrency() outside the provider: convertFromAED: (amount) => amount
defaultConvertFromAED(amount) == amount

\* a component converts an AED amount for display, and back
Convert ==
  \E aedAmount \in Amounts :
    /\ conversion = NoConversion
    /\ conversion' =
         [kind |-> "convert", aedAmount |-> aedAmount,
          fromAED |-> convertFromAED(aedAmount),
          toAED |-> convertToAED(convertFromAED(aedAmount), selectedCurrency),
          default |-> defaultConvertFromAED(aedAmount)]
    /\ UNCHANGED <<currencyData, selectedCurrency, serverVars, calcVars,
                   rateVars, quoteVars,
                   mailVars, clientVars, flowVars, catalogVars>>

\* currency ids convertToAED can be handed: the stored ones, a supported one
\* without a record, an unknown one and the empty string
FromCurrencies == {"AED", "USD", "EUR", "GBP", "INR", "PKR", "XXX", ""}

\* useCurrency() outside the provider: convertToAED: (amount, fromCurrency) => amount
defaultConvertToAED(amount, fromCurrency) == amount

\* a component converts an amount in some currency to AED
ConvertBack ==
  \E amount \in Amounts, fromCurrency \in FromCurrencies :
    /\ conversion = NoConversion
    /\ conversion' =
         [kind |-> "toAED", amount |-> amount, fromCurrency |-> fromCurrency,
          result |-> convertToAED(amount, fromCurrency),
          default |-> defaultConvertToAED(amount, fromCurrency)]
    /\ UNCHANGED <<currencyData, selectedCurrency, serverVars, calcVars,
                   rateVars, quoteVars,
                   mailVars, clientVars, flowVars, catalogVars>>

NextConv ==
  \/ CurrenciesFetched
  \/ SetSelectedCurrency
  \/ Convert
  \/ ConvertBack

SpecConv == InitConv /\ [][NextConv]_vars

\* ---------------------------------------------------------------------------
\* The calculator components' Send Quote and Export PDF buttons
\* (custom-resource-calculator.tsx, swat-team-calculator.tsx, Home)
\* ---------------------------------------------------------------------------
CalculatorTypes == {"custom", "swat"}

\* calculation.finalRate of the component at the click: 0, or a rate of the catalog
FinalRates == {0} \cup QuoteAmounts

\* convertedRate: the memo's function, recomputed at every render (convertFromAED
\* is a new function at every render of the provider)
convertedRate(finalRate) ==
  IF finalRate > 0 /\ Len(currencies) > 0 THEN convertFromAED(finalRate) ELSE 0

InitFlow == Init

\* handleSendQuote of a calculator, and Home's handleSendQuote, which keeps the
\* quote as emailQuoteData and opens the email modal
handleSendQuote(type) ==
  \E finalRate \in FinalRates :
    /\ isInitialized
    /\ handoff = NoHandoff
    /\ handoff' =
         IF finalRate > 0
         THEN [kind |-> "sendQuote", calculator |-> type, finalRate |-> finalRate,
               selectedCurrency |-> selectedCurrency,
               convertFromAED |-> convertFromAED(finalRate),
               isEmailModalOpen |-> TRUE,
               emailQuoteData |-> [type |-> type, finalRate |-> convertedRate(finalRate),
                                   currency |-> selectedCurrency]]
         ELSE [kind |-> "sendQuote", calculator |-> type, finalRate |-> finalRate,
               selectedCurrency |-> selectedCurrency,
               convertFromAED |-> convertFromAED(finalRate),
               isEmailModalOpen |-> FALSE]
    /\ UNCHANGED <<serverVars, currencyVars, calcVars, rateVars, quoteVars,
                   mailVars, clientVars, catalogVars>>

\* handleExportPDF of a calculator: nothing for a finalRate of 0; otherwise the
\* document is built and saved, unless jsPDF throws (caught and logged)
handleExportPDF(type) ==
  \E finalRate \in FinalRates, built \in BOOLEAN :
    /\ isInitialized
    /\ handoff = NoHandoff
    /\ handoff' = [kind |-> "exportPDF", calculator |-> type, finalRate |-> finalRate,
                   saved |-> (finalRate # 0 /\ built)]
    /\ UNCHANGED <<serverVars, currencyVars, calcVars, rateVars, quoteVars,
                   mailVars, clientVars, catalogVars>>

NextFlow ==
  \/ CurrenciesFetched
  \/ SetSelectedCurrency
  \/ \E type \in CalculatorTypes : handleSendQuote(type)
  \/ \E type \in CalculatorTypes : handleExportPDF(type)

SpecFlow == InitFlow /\ [][NextFlow]_vars

\* ---------------------------------------------------------------------------
\* CurrencyProvider's update-rates requests (use-currency.tsx): the mount
\* effect with its hourly interval, the effect on a currency change, and
\* refreshRates
\* ---------------------------------------------------------------------------
MaxInFlight == 1

\* fetch('/api/currencies/update-rates', { body: { baseCurrency } }), by the
\* code that sends it
updateRatesRequest(origin, baseCurrency) == [origin |-> origin, baseCurrency |-> baseCurrency]

\* (mutation: the change effect sends a request for AED as well)
changeRequests_Always(currency) == {updateRatesRequest("change", currency)}

\* the effect on [selectedCurrency, queryClient]: if (selectedCurrency !== 'AED')
\* updateRatesForCurrency()
changeRequests(currency) ==
  IF currency # "AED" THEN {updateRatesRequest("change", currency)} ELSE {}

mounted == intervalCurrency # ""

InitClient == Init

\* CurrencyProvider mounts: the effect on [queryClient] defines updateRates over
\* the selectedCurrency of this render, calls it and sets the interval; the
\* effect on [selectedCurrency, queryClient] runs for the first time
Mount ==
  /\ ~mounted
  /\ intervalCurrency' = selectedCurrency
  /\ effectCurrency' = selectedCurrency
  /\ requests' = requests \cup {updateRatesRequest("mount", selectedCurrency)}
                          \cup changeRequests(selectedCurrency)
  /\ UNCHANGED <<isInitialized, settled, stale, serverVars, currencyVars, calcVars,
                 rateVars, quoteVars, mailVars, flowVars, catalogVars>>

\* the interval fires: updateRates of the mount effect runs again
HourlyTick ==
  /\ mounted
  /\ Cardinality(requests) < MaxInFlight
  /\ requests' = requests \cup {updateRatesRequest("tick", intervalCurrency)}
  /\ UNCHANGED <<isInitialized, intervalCurrency, effectCurrency, settled, stale,
                 serverVars, currencyVars, calcVars,
                 rateVars, quoteVars, mailVars, flowVars, catalogVars>>

\* the user picks a currency in the Header, which is rendered once the provider
\* is initialized; effects of the previous render have run by then
SelectCurrency ==
  /\ mounted
  /\ isInitialized
  /\ effectCurrency = selectedCurrency
  /\ SetSelectedCurrency

\* after the render with a new selectedCurrency the effect on
\* [selectedCurrency, queryClient] runs
ChangeEffect ==
  /\ mounted
  /\ effectCurrency # selectedCurrency
  /\ Cardinality(requests) < MaxInFlight
  /\ effectCurrency' = selectedCurrency
  /\ requests' = requests \cup changeRequests(selectedCurrency)
  /\ UNCHANGED <<isInitialized, intervalCurrency, settled, stale,
                 serverVars, currencyVars, calcVars,
                 rateVars, quoteVars, mailVars, flowVars, catalogVars>>

\* a component calls refreshRates of the current render
RefreshRates ==
  /\ mounted
  /\ isInitialized
  /\ Cardinality(requests) < MaxInFlight
  /\ requests' = requests \cup {updateRatesRequest("manual", selectedCurrency)}
  /\ UNCHANGED <<isInitialized, intervalCurrency, effectCurrency, settled, stale,
                 serverVars, currencyVars, calcVars,
                 rateVars, quoteVars, mailVars, flowVars, catalogVars>>

\* await fetch(...) settles: it resolves for every answer of the server, of any
\* status, and invalidateQueries follows; it rejects on a network failure, and
\* the catch logs the error
RequestSettles ==
  \E request \in requests, answered \in BOOLEAN :
    /\ requests' = requests \ {request}
    /\ settled' = [origin |-> request.origin, answered |-> answered]
    /\ stale' = (stale \/ answered)
    /\ UNCHANGED <<isInitialized, intervalCurrency, effectCurrency,
                   serverVars, currencyVars, calcVars,
                   rateVars, quoteVars, mailVars, flowVars, catalogVars>>

\* useQuery fetches /api/currencies when it has no data yet and again after
\* invalidateQueries
QueryFetch ==
  /\ ~currencyData.defined \/ stale
  /\ CurrenciesFetched

NextClient ==
  \/ Mount
  \/ HourlyTick
  \/ SelectCurrency
  \/ ChangeEffect
  \/ RefreshRates
  \/ RequestSettles
  \/ QueryFetch

SpecClient == InitClient /\ [][NextClient]_vars

(***************************************************************************)
(* The rate source against every answer of the external service            *)
(***************************************************************************)
InitRates == Init

\* updateExchangeRates(baseCurrency) is called and the external service
\* answers, or fails to
CallUpdateExchangeRates ==
  \E baseCurrency \in StoreBases, outcome \in FetchOutcomes,
     missing \in SUBSET DroppedIds, zeroed \in SUBSET ZeroedIds :
    LET response == [outcome |-> outcome,
                     conversion_rates |-> conversionRates(baseCurrency, missing, zeroed)]
    IN  /\ rateCall' = [kind |-> "call", baseCurrency |-> baseCurrency,
                        response |-> response,
                        result |-> updateExchangeRatesOn(response)]
        /\ UNCHANGED <<serverVars, currencyVars, calcVars, quoteVars,
                   mailVars, clientVars, flowVars, catalogVars>>

NextRates == CallUpdateExchangeRates

SpecRates == InitRates /\ [][NextRates]_vars

(***************************************************************************)
(* Properties                                                              *)
(***************************************************************************)
\* the record of the array arr with the given id (ids are unique in the catalog)
recordOf(arr, id) == arr[CHOOSE i \in 1..Len(arr) : arr[i].id = id]
resolves(arr, id) == \E i \in 1..Len(arr) : arr[i].id = id
isOption(options, str) == \E i \in 1..Len(options) : options[i] = str

\* the SWAT call of the current state has a role and a seniority that resolve
\* and a workload and a duration taken from the option lists
SWATResolves ==
  /\ calculation.kind = "swat"
  /\ resolves(swatRoles, calculation.roleId)
  /\ resolves(seniorityLevels, calculation.seniorityId)
  /\ isOption(workloadOptionsData, calculation.workloadPercent)
  /\ isOption(durationOptionsData, calculation.durationMonths)

CustomResolves ==
  /\ calculation.kind = "custom"
  /\ resolves(regions, calculation.regionId)
  /\ resolves(customRoles, calculation.roleId)
  /\ resolves(seniorityLevels, calculation.seniorityId)

\* C3: for every region, custom role and seniority level that resolve,
\* calculateCustomRate returns the catalog baseRate, the two multipliers
\* unchanged, and finalRate = round-half-up(baseRate x regionalMultiplier x
\* seniorityMultiplier), the product taken of the catalog's decimal values.
C3_CustomRateRoundHalfUp ==
  CustomResolves =>
    LET b == recordOf(customRoles, calculation.roleId).baseRate
        r == recordOf(regions, calculation.regionId).multiplier
        s == recordOf(seniorityLevels, calculation.seniorityId).multiplier
    IN  /\ calculation.result.baseRate = b
        /\ calculation.result.regionalMultiplier = parseFloatMult(r)
        /\ calculation.result.seniorityMultiplier = parseFloatMult(s)
        /\ calculation.result.finalRate = ExactRound(b * r * s, MultScale * MultScale)

Abs(n) == IF n < 0 THEN -n ELSE n

\* a conversion was made with a display currency other than AED that has a
\* record in the loaded list
ConvertedToDisplay ==
  /\ conversion.kind = "convert"
  /\ selectedCurrency # "AED"
  /\ resolves(currencies, selectedCurrency)

displayRate == recordOf(currencies, selectedCurrency).rate

\* the loaded rate table is the one of a successful refresh with base B: the
\* marker names B, B has a record, every record is tagged B and B's rate is 1
RatesPerUnitOfBase ==
  /\ currentBaseCurrency # "AED"
  /\ resolves(currencies, currentBaseCurrency)
  /\ resolves(currencies, "AED")
  /\ recordOf(currencies, currentBaseCurrency).rate = RateScale
  /\ \A i \in 1..Len(currencies) : currencies[i].baseCurrency = currentBaseCurrency

\* C1: when the marker is a non-AED currency B and the stored rates are per 1
\* unit of B, convertFromAED(x) equals the direct AED-to-X conversion
\* round(x * rate[X] / rate[AED]) for every amount x and display currency X.
C1_TwoStepEqualsDirect ==
  (ConvertedToDisplay /\ RatesPerUnitOfBase) =>
    conversion.fromAED =
      ExactRound(conversion.aedAmount * displayRate, recordOf(currencies, "AED").rate)

\* C4: after any sequence of completed refresh requests whose store writes
\* succeeded, the stored rate of the currency the marker names is 1 (the table is
\* expressed relative to the marker).
C4_RatesRelativeToMarker ==
  (\A h \in Handlers : update[h].pc = "idle" \/ (update[h].pc = "done" /\ update[h].status = 200))
    => \A i \in 1..Len(kvCurrencies) :
         kvCurrencies[i].id = kvBaseCurrency => kvCurrencies[i].rate = RateScale

\* C5: when the only refresh so far has completed, the store holds either both
\* its rate table and its marker, or neither (the records as they were before).
C5_SingleLogicalUpdate ==
  \A h \in Handlers :
    (refreshes = 1 /\ update[h].pc = "done") =>
      \/ kvCurrencies = update[h].updatedCurrencies /\ kvBaseCurrency = update[h].baseCurrency
      \/ kvCurrencies = currenciesData /\ kvBaseCurrency = "AED"

\* C6: when two refreshes with different base currencies have both completed
\* successfully (every store read and write succeeded), the rate table and the
\* marker in the store were written by the same refresh, whatever the
\* interleaving.
C6_LastWriteWinsForBoth ==
  ( /\ \A h \in Handlers : /\ update[h].pc = "done"
                          /\ update[h].status = 200
                          /\ update[h].updatedCurrencies # <<>>
    /\ \A h1, h2 \in Handlers :
         h1 # h2 => update[h1].baseCurrency # update[h2].baseCurrency )
    => \E h \in Handlers :
         /\ kvCurrencies = update[h].updatedCurrencies
         /\ kvBaseCurrency = update[h].baseCurrency

\* C7: a currencies read that runs alongside one refresh (all store reads and
\* writes succeeding) answers with the list and the marker from before that
\* refresh, or with both from after it.
C7_NoPartialRead ==
  ( /\ get.pc = "done"
    /\ ~get.currenciesError /\ ~get.baseCurrencyError
    /\ refreshes <= 1
    /\ \A h \in Handlers :
         /\ update[h].pc \in {"upsertBaseCurrency", "done"} =>
              ~update[h].currenciesError /\ update[h].updatedCurrencies # <<>>
         /\ update[h].pc = "done" => ~update[h].baseCurrencyError )
  => \/ currencyData.currencies = currenciesData /\ currencyData.baseCurrency = "AED"
     \/ \E h \in Handlers :
          /\ update[h].pc \in {"upsertBaseCurrency", "done"}
          /\ currencyData.currencies = update[h].updatedCurrencies
          /\ currencyData.baseCurrency = update[h].baseCurrency

\* C8 as stated: with base currency AED, convertToAED(convertFromAED(x), display)
\* differs from x by at most 1 for every x >= 0 and non-AED display currency.
C8_RoundTripWithinOne ==
  (ConvertedToDisplay /\ currentBaseCurrency = "AED") =>
    Abs(conversion.toAED - conversion.aedAmount) <= 1

\* C8 amended: with base currency AED the round trip differs from x by at most
\* (1 + 1/rate) / 2, that is 2 * rate * |difference| <= rate + 1; this is within
\* 1 unit exactly for the currencies whose rate exceeds 1/3.
C8_RoundTripBound ==
  (ConvertedToDisplay /\ currentBaseCurrency = "AED") =>
    /\ 2 * displayRate * Abs(conversion.toAED - conversion.aedAmount)
         <= displayRate + RateScale
    /\ 3 * displayRate > RateScale => Abs(conversion.toAED - conversion.aedAmount) <= 1

\* C8 witness: a round trip through a rate below 1/3 that is off by 2
C8_Witness ==
  /\ ConvertedToDisplay
  /\ currentBaseCurrency = "AED"
  /\ 3 * displayRate < RateScale
  /\ Abs(conversion.toAED - conversion.aedAmount) = 2

\* C9: when the marker is AED and the display currency X is a non-AED currency of
\* the catalog, convertFromAED(x) = round(x * rate[X]) for every amount x.
C9_DirectConversion ==
  (ConvertedToDisplay /\ currentBaseCurrency = "AED") =>
    conversion.fromAED = ExactRound(conversion.aedAmount * displayRate, RateScale)

\* C9 witness: 193 AED shown in USD at the initial rate 0.27 is 52
C9_Witness ==
  /\ ConvertedToDisplay
  /\ currentBaseCurrency = "AED"
  /\ selectedCurrency = "USD"
  /\ displayRate = 270
  /\ conversion.aedAmount = 193
  /\ conversion.fromAED = 52

\* C10: convertFromAED returns its input unchanged when the display currency is
\* AED (whatever the marker and the rates), when the display currency has no
\* record in the loaded list, and when the marker names a non-AED currency
\* without a record; so does the convertFromAED of useCurrency's default context.
C10_Passthrough ==
  ( /\ conversion.kind = "convert"
    /\ \/ selectedCurrency = "AED"
       \/ ~resolves(currencies, selectedCurrency)
       \/ currentBaseCurrency # "AED" /\ ~resolves(currencies, currentBaseCurrency) )
  => /\ conversion.fromAED = conversion.aedAmount
     /\ conversion.default = conversion.aedAmount

\* C10 witness: a display currency with a record, converted while the marker
\* names CHF, which has no record in the list
C10_Witness ==
  /\ ConvertedToDisplay
  /\ currentBaseCurrency = "CHF"
  /\ ~resolves(currencies, "CHF")
  /\ conversion.aedAmount = 193
  /\ conversion.fromAED = 193

\* C11: convertToAED(amount, from) returns round(amount / rate[from]) when from
\* is a non-AED currency with a record in the loaded list, and returns amount
\* unchanged when from is AED or has no record.
C11_ConvertToAED ==
  conversion.kind = "toAED" =>
    IF conversion.fromCurrency # "AED" /\ resolves(currencies, conversion.fromCurrency)
    THEN conversion.result =
           ExactRound(conversion.amount * RateScale,
                      recordOf(currencies, conversion.fromCurrency).rate)
    ELSE conversion.result = conversion.amount

\* C12: for every failure of the external source (network error, non-success
\* HTTP status, malformed JSON, result not 'success', missing conversion_rates)
\* and every requested base currency, updateExchangeRates returns a value (it
\* does not raise), and the value is exactly the fallback table of 11 rates.
C12_FallbackOnEveryFailure ==
  (rateCall.kind = "call" /\ rateCall.response.outcome \in FetchFailures) =>
    /\ DOMAIN rateCall.result = SupportedIds
    /\ Cardinality(DOMAIN rateCall.result) = 11
    /\ rateCall.result = fallbackRates

\* C12 witness: base USD, the response is not valid JSON, the result has the
\* AED-relative fallback rate 0.272 for USD
C12_Witness ==
  /\ rateCall.kind = "call"
  /\ rateCall.baseCurrency = "USD"
  /\ rateCall.response.outcome = "malformed-json"
  /\ rateCall.result["USD"] = 272
  /\ rateCall.result["AED"] = 1000

\* C13 as stated: on a successful fetch the result's key set is exactly the 11
\* supported ids and each value is the fetched rate when the id is present in
\* the response, otherwise the id's fallback constant.
C13_FetchedWhenPresent ==
  (rateCall.kind = "call" /\ rateCall.response.outcome = "success") =>
    /\ DOMAIN rateCall.result = SupportedIds
    /\ \A id \in SupportedIds :
         rateCall.result[id] =
           IF id \in DOMAIN rateCall.response.conversion_rates
           THEN rateCall.response.conversion_rates[id]
           ELSE fallbackRates[id]

\* C13 amended: the key set is exactly the 11 supported ids, and each value is
\* the fetched rate when the id is present with a non-zero rate, otherwise
\* (absent, or present as 0) the id's fallback constant.
C13_FetchedWhenPresentNonZero ==
  (rateCall.kind = "call" /\ rateCall.response.outcome = "success") =>
    /\ DOMAIN rateCall.result = SupportedIds
    /\ \A id \in SupportedIds :
         rateCall.result[id] =
           IF /\ id \in DOMAIN rateCall.response.conversion_rates
              /\ rateCall.response.conversion_rates[id] # 0
           THEN rateCall.response.conversion_rates[id]
           ELSE fallbackRates[id]

\* C13 witness: a successful answer for base USD that has the extra key SAR,
\* lacks PKR and gives JPY as 0
C13_Witness ==
  /\ rateCall.kind = "call"
  /\ rateCall.baseCurrency = "USD"
  /\ rateCall.response.outcome = "success"
  /\ "SAR" \in DOMAIN rateCall.response.conversion_rates
  /\ "PKR" \notin DOMAIN rateCall.response.conversion_rates
  /\ rateCall.response.conversion_rates["JPY"] = 0
  /\ rateCall.result["PKR"] = 75500
  /\ rateCall.result["JPY"] = 40200
  /\ rateCall.result["AED"] = 3673

\* C14: every refresh request that has started its fetch eventually gets its
\* response, also when the external rate source never answers (the fetch is
\* then cut off and the refresh goes on with the fallback table).
C14_RefreshCompletes ==
  (update[1].pc = "fetch") ~> (update[1].pc = "done")

\* the SWAT call of the current state passes the guard of calculateSWATRate:
\* role and seniority resolve, workload and duration are non-empty strings
SWATAccepted ==
  /\ calculation.kind = "swat"
  /\ resolves(swatRoles, calculation.roleId)
  /\ resolves(seniorityLevels, calculation.seniorityId)
  /\ calculation.workloadPercent # <<>>
  /\ calculation.durationMonths # <<>>

\* the duration string of the call as a number, read digit by digit
durationOfCall ==
  LET str == calculation.durationMonths
      digits == IF str[1] = MinusSign THEN Tail(str) ELSE str
      value == IF Len(digits) = 1 THEN digits[1] ELSE 10 * digits[1] + digits[2]
  IN  IF str[1] = MinusSign THEN 0 - value ELSE value

\* C15: the duration discount of calculateSWATRate is 0 for 1 month, 5 for 2,
\* 10 for 3 and 15 for every duration >= 4 (10 included); a duration of 0 or a
\* negative one is not rejected (the result is not the all-zero fallback) and
\* gets 0; the label next to each duration option names the same percentage.
C15_DurationDiscountTable ==
  SWATAccepted =>
    LET d == durationOfCall
        expected == IF d >= 4 THEN 15
                    ELSE IF d = 3 THEN 10
                    ELSE IF d = 2 THEN 5
                    ELSE 0
    IN  /\ calculation.result.durationDiscount = expected
        /\ calculation.result.baseRate > 0
        /\ isOption(durationOptionsData, calculation.durationMonths) =>
             calculation.durationLabel =
               CASE expected = 0  -> "No Discount"
                 [] expected = 5  -> "-5% Discount"
                 [] expected = 10 -> "-10% Discount"
                 [] expected = 15 -> "-15% Discount"

\* C15 witness: a duration of 4 months, at the edge of the top tier, gets 15%
\* and the label of the option says so
C15_Witness ==
  /\ SWATAccepted
  /\ calculation.durationMonths = <<4>>
  /\ calculation.result.durationDiscount = 15
  /\ calculation.durationLabel = "-15% Discount"
  /\ calculation.result.finalRate > 0

\* the SWAT call of the current state has exactly these arguments
SWATCallIs(roleId, workloadPercent, durationMonths, seniorityId) ==
  /\ SWATResolves
  /\ calculation.roleId = roleId
  /\ calculation.workloadPercent = workloadPercent
  /\ calculation.durationMonths = durationMonths
  /\ calculation.seniorityId = seniorityId

\* C16: the SWAT pipeline is order-sensitive: there are valid inputs for which
\* the same stages in another order, each still rounded, give a finalRate
\* different from calculateSWATRate's.  For base rate 200, Junior, 25%, 2 months
\* the structural discount taken before the duration discount gives another
\* finalRate; for base rate 220, Junior, 75%, 1 month the workload taken before
\* the seniority does.
C16_OrderSensitive ==
  /\ SWATCallIs("swat-frontend", <<2, 5>>, <<2>>, "junior") =>
       calculation.result.finalRate #
         calculateSWATRate_DiscountFirst("swat-frontend", <<2, 5>>, <<2>>, "junior").finalRate
  /\ SWATCallIs("swat-backend", <<7, 5>>, <<1>>, "junior") =>
       calculation.result.finalRate #
         calculateSWATRate_WorkloadFirst("swat-backend", <<7, 5>>, <<1>>, "junior").finalRate

\* C16 witness: 200 x 0.70 = 140, 25% of it is 35, minus 5% is 33, times 0.8 is
\* 26; with the 20% discount first it is 35 -> 28 -> 27
C16_Witness ==
  /\ SWATCallIs("swat-frontend", <<2, 5>>, <<2>>, "junior")
  /\ calculation.result.finalRate = 26
  /\ calculateSWATRate_DiscountFirst("swat-frontend", <<2, 5>>, <<2>>, "junior").finalRate = 27

\* ids of the catalog, by the records initializeData wrote
idsOf(arr) == {arr[i].id : i \in 1..Len(arr)}
customRoleIdsOfCatalog ==
  {rolesData[i].id : i \in {j \in 1..Len(rolesData) : rolesData[j].category = "custom"}}
swatRoleIdsOfCatalog ==
  {rolesData[i].id : i \in {j \in 1..Len(rolesData) : rolesData[j].category = "swat"}}

\* C17: calculateCustomRate returns the all-zero result {0, 0, 0, 0} whenever
\* the regionId, the roleId or the seniorityId does not resolve: it is empty,
\* unknown, not loaded, or (the roleId) the id of a role of category 'swat'.
C17_CustomZeroFallback ==
  ( /\ calculation.kind = "custom"
    /\ \/ ~resolves(regions, calculation.regionId)
       \/ ~resolves(seniorityLevels, calculation.seniorityId)
       \/ ~resolves(customRoles, calculation.roleId)
       \/ calculation.roleId \notin customRoleIdsOfCatalog )
  => /\ calculation.result.baseRate = 0
     /\ calculation.result.regionalMultiplier = FZero
     /\ calculation.result.seniorityMultiplier = FZero
     /\ calculation.result.finalRate = 0

\* C17 witness: with the whole catalog loaded, region and seniority resolving,
\* the id of a SWAT role gives the all-zero result
C17_Witness ==
  /\ calculation.kind = "custom"
  /\ customRoles # <<>>
  /\ resolves(regions, calculation.regionId)
  /\ resolves(seniorityLevels, calculation.seniorityId)
  /\ calculation.roleId = "swat-frontend"
  /\ calculation.roleId \in swatRoleIdsOfCatalog
  /\ calculation.result.finalRate = 0
  /\ calculation.result.baseRate = 0

\* C18: calculateSWATRate returns the all-zero result {0, 0, 0, 0, 0} whenever
\* the role or the seniority does not resolve or the workload or the duration
\* string is empty, whatever the other inputs are.
C18_SWATZeroFallback ==
  ( /\ calculation.kind = "swat"
    /\ \/ ~resolves(swatRoles, calculation.roleId)
       \/ calculation.roleId \notin swatRoleIdsOfCatalog
       \/ ~resolves(seniorityLevels, calculation.seniorityId)
       \/ calculation.workloadPercent = <<>>
       \/ calculation.durationMonths = <<>> )
  => calculation.result =
       [baseRate |-> 0, baseWithSeniority |-> 0, afterWorkload |-> 0,
        durationDiscount |-> 0, finalRate |-> 0]

\* C18 witness: role and seniority resolve, the duration is chosen, only the
\* workload is missing
C18_Witness ==
  /\ calculation.kind = "swat"
  /\ resolves(swatRoles, calculation.roleId)
  /\ resolves(seniorityLevels, calculation.seniorityId)
  /\ calculation.workloadPercent = <<>>
  /\ calculation.durationMonths = <<3>>
  /\ calculation.result.baseRate = 0
  /\ calculation.result.finalRate = 0

\* handler h answers 201 in this step
QuoteCreated(h) ==
  /\ quote[h].pc = "upsert"
  /\ quote'[h].pc = "done"
  /\ quote'[h].status = 201

\* C19: every successful quote creation assigns an id different from the id of
\* every quote created (stored) before it, sets a creation timestamp, keeps the
\* submitted type, configuration, finalRate and currency unchanged, and answers
\* with exactly the record that was written to the store.
C19_QuoteCreation ==
  [][\A h \in QuoteHandlers :
       QuoteCreated(h) =>
         LET created == quote'[h].response
             body    == quote[h].body
         IN  /\ DOMAIN created =
                  {"id", "type", "configuration", "finalRate", "currency", "createdAt"}
             /\ created.id.t = "string"
             /\ created.id \notin {q.id : q \in kvQuotes}
             /\ created.createdAt.t = "string"
             /\ created.createdAt.iso \in 0..now
             /\ created.type = body.type
             /\ created.configuration = body.configuration
             /\ created.finalRate = body.finalRate
             /\ created.currency = body.currency
             /\ created \in kvQuotes'
             /\ kvQuotes' = kvQuotes \cup {created}]_vars

\* C19 witness: a second quote was created, the body of its request carried an
\* id of the client's, and the store holds two records with different ids
C19_Witness ==
  \E h \in QuoteHandlers :
    /\ quote[h].pc = "done"
    /\ quote[h].status = 201
    /\ quote[h].body.id # JUndefined
    /\ quote[h].response \in kvQuotes
    /\ Cardinality(kvQuotes) = 2
    /\ Cardinality({q.id : q \in kvQuotes}) = 2

\* a body that has type, configuration, finalRate and currency, with type and
\* currency strings and finalRate an integer
WellFormedBody(body) ==
  /\ body.type.t = "string"
  /\ body.configuration.t # "undefined"
  /\ body.finalRate.t = "number" /\ body.finalRate.frac = 0
  /\ body.currency.t = "string"

isMissing(v) == v = JUndefined

LacksRequiredField(body) ==
  isMissing(body.recipientEmail) \/ isMissing(body.senderName) \/ isMissing(body.quoteData)

C21_MissingFieldsRejected ==
  /\ (sendQuote.pc # "idle" /\ LacksRequiredField(sendQuote.body)) =>
       /\ sendQuote.pc = "done"
       /\ sendQuote.status = 400
       /\ \A e \in emails : e.request # sendQuote.n
  /\ \A e \in emails :
       /\ ~isMissing(e.params.to)
       /\ ~isMissing(e.params.senderName)
       /\ ~isMissing(e.params.quoteData)

\* the second request lacks only quoteData and is answered 400, after a first
\* request whose email was sent
C21_Witness ==
  /\ sendQuote.pc = "done"
  /\ sendQuote.n = 2
  /\ isMissing(sendQuote.body.quoteData)
  /\ ~isFalsy(sendQuote.body.recipientEmail)
  /\ ~isFalsy(sendQuote.body.senderName)
  /\ sendQuote.status = 400
  /\ emails # {}


\* ---------------------------------------------------------------------------
\* C22: a failed store write is reported to the caller and not tried again.
\* A refresh one of whose two upserts failed is answered 500; a quote creation
\* whose upsert failed is answered with the error message, not 201 and a
\* record; and once a write has failed, the record it was for stays as it is
\* for as long as that request is the handler's latest.
\* ---------------------------------------------------------------------------
RefreshWriteFailed(u) ==
  /\ u.pc = "done"
  /\ u.currenciesError \/ u.baseCurrencyError

C22_WriteFailureSurfaced ==
  [][ /\ RefreshWriteFailed(update'[1]) => update'[1].status = 500
      /\ (quote'[1].pc = "done" /\ quote'[1].error) =>
           /\ quote'[1].status = 400
           /\ quote'[1].response = [message |-> "Invalid quote data"]
      /\ (update[1].pc = "upsertBaseCurrency" /\ update[1].currenciesError) =>
           kvCurrencies' = kvCurrencies
      /\ (RefreshWriteFailed(update[1]) /\ update'[1] = update[1]) =>
           /\ update[1].currenciesError => kvCurrencies' = kvCurrencies
           /\ update[1].baseCurrencyError => kvBaseCurrency' = kvBaseCurrency
      /\ (quote[1].pc = "done" /\ quote[1].error /\ quote'[1] = quote[1]) =>
           kvQuotes' = kvQuotes
    ]_vars

\* a refresh whose second upsert alone failed and a quote creation whose
\* upsert failed have both been answered
C22_Witness ==
  /\ update[1].pc = "done"
  /\ ~update[1].currenciesError
  /\ update[1].baseCurrencyError
  /\ update[1].status = 500
  /\ kvCurrencies = update[1].updatedCurrencies
  /\ quote[1].pc = "done"
  /\ quote[1].error
  /\ quote[1].status = 400
  /\ kvQuotes = {}

\* ---------------------------------------------------------------------------
\* C23: a stored quote is never changed or removed by a later operation (a
\* quote creation, a refresh, a read): every step keeps every stored quote as
\* it is, a new stored quote is the record the creating request returns, and a
\* step of the quote handler changes no catalog record (regions, roles,
\* seniority levels, currencies, base marker).
\* ---------------------------------------------------------------------------
C23_QuotesImmutable ==
  [][ /\ kvQuotes \subseteq kvQuotes'
      /\ \A q \in kvQuotes' \ kvQuotes :
           /\ quote'[1].pc = "done"
           /\ quote'[1].status = 201
           /\ quote'[1].response = q
           /\ \A r \in kvQuotes : r.id # q.id
      /\ (quote'[1] # quote[1] \/ kvQuotes' # kvQuotes) =>
           /\ kvCatalog' = kvCatalog
           /\ kvCurrencies' = kvCurrencies
           /\ kvBaseCurrency' = kvBaseCurrency
    ]_vars

\* a quote is stored beside a refresh that changed the currencies and the
\* marker, and the regions have been read
C23_Witness ==
  /\ Cardinality(kvQuotes) = 1
  /\ quote[1].pc = "done"
  /\ quote[1].status = 201
  /\ quote[1].response \in kvQuotes
  /\ update[1].pc = "done"
  /\ update[1].status = 200
  /\ kvBaseCurrency # "AED"
  /\ kvCurrencies # currenciesData
  /\ regions = kvCatalog.regions

\* ---------------------------------------------------------------------------
\* C24: the marker as getCurrentBaseCurrency reads it is AED after
\* initialization and whenever the read fails (which includes no marker being
\* stored); after refresh requests executed one after the other, when the
\* writes of the latest one succeeded, it is the base that request asked for,
\* AED standing for a request without baseCurrency.
\* ---------------------------------------------------------------------------
requestedBase(body) == IF body = "" THEN "AED" ELSE body

C24_MarkerFollowsLastRefresh ==
  /\ getCurrentBaseCurrency(FALSE) = "AED"
  /\ refreshes = 0 => getCurrentBaseCurrency(TRUE) = "AED"
  /\ (update[1].pc = "done" /\ update[1].status = 200) =>
       getCurrentBaseCurrency(TRUE) = requestedBase(update[1].body)

\* the second of two refreshes asked for no base, both of its writes succeeded,
\* and the stored rates are no longer the initial ones
C24_Witness ==
  /\ refreshes = 2
  /\ update[1].pc = "done"
  /\ update[1].status = 200
  /\ update[1].body = ""
  /\ kvBaseCurrency = "AED"
  /\ \E i \in 1..Len(kvCurrencies) : kvCurrencies[i].baseCurrency = "AED"
  /\ kvCurrencies # currenciesData

C26_OnlyRatesAndTagChange ==
  [][ /\ Len(kvCurrencies') = Len(kvCurrencies)
      /\ \A i \in 1..Len(kvCurrencies) : i \in 1..Len(kvCurrencies') =>
           /\ kvCurrencies'[i].id = kvCurrencies[i].id
           /\ kvCurrencies'[i].name = kvCurrencies[i].name
           /\ kvCurrencies'[i].symbol = kvCurrencies[i].symbol
           /\ kvCurrencies'[i].rate # kvCurrencies[i].rate =>
                /\ update[1].pc = "upsertCurrencies"
                /\ kvCurrencies[i].id \in DOMAIN update[1].rates
                /\ kvCurrencies'[i].rate = update[1].rates[kvCurrencies[i].id]
                /\ kvCurrencies'[i].rate # 0
    ]_vars

\* ---------------------------------------------------------------------------
\* C27: for every loaded SWAT role and seniority and every workload from 0 to
\* 100, calculateSWATRate returns 0 <= finalRate <= afterWorkload <=
\* baseWithSeniority; one month more never gives a higher finalRate and one
\* percent more workload never gives a lower one.
\* ---------------------------------------------------------------------------
C27_SWATBoundsAndMonotone ==
  calculation.kind = "sweep" =>
    /\ 0 <= calculation.result.finalRate
    /\ calculation.result.finalRate <= calculation.result.afterWorkload
    /\ calculation.result.afterWorkload <= calculation.result.baseWithSeniority
    /\ calculation.longer.finalRate <= calculation.result.finalRate
    /\ calculation.moreWorkload.finalRate >= calculation.result.finalRate

\* swat-frontend at senior, 37 percent, 3 months: 75, with a lower rate for 4
\* months and a higher one for 38 percent
C27_Witness ==
  /\ calculation.kind = "sweep"
  /\ calculation.roleId = "swat-frontend"
  /\ calculation.seniorityId = "senior"
  /\ calculation.workload = 37
  /\ calculation.duration = 3
  /\ calculation.result.finalRate = 75
  /\ calculation.longer.finalRate < 75
  /\ calculation.moreWorkload.finalRate > 75

\* ---------------------------------------------------------------------------
\* C28: a calculator hands a quote to the email flow only when its AED
\* finalRate is above 0; the quote has the calculator's type, the selected
\* display currency and finalRate = convertFromAED(AED finalRate) under the
\* loaded currencies; Export PDF saves nothing when the AED finalRate is 0.
\* ---------------------------------------------------------------------------
C28_QuoteHandover ==
  /\ handoff.kind = "sendQuote" =>
       /\ handoff.isEmailModalOpen <=> handoff.finalRate > 0
       /\ handoff.isEmailModalOpen =>
            /\ handoff.emailQuoteData.type = handoff.calculator
            /\ handoff.emailQuoteData.currency = handoff.selectedCurrency
            /\ handoff.emailQuoteData.finalRate = handoff.convertFromAED
  /\ (handoff.kind = "exportPDF" /\ handoff.finalRate = 0) => ~handoff.saved

\* ---------------------------------------------------------------------------
\* C29: when the selection changes to a non-AED currency X the client sends an
\* update-rates request with base X and re-reads the currencies when that
\* request has settled; a change to AED sends nothing, so the marker of the
\* store is left as it is.
\* ---------------------------------------------------------------------------
ChangeEffectRan == mounted /\ effectCurrency' # effectCurrency

ChangeSendsOrSkips ==
  ChangeEffectRan =>
    IF selectedCurrency # "AED"
    THEN updateRatesRequest("change", selectedCurrency) \in requests'
    ELSE requests' = requests /\ kvBaseCurrency' = kvBaseCurrency

C29_ChangeRefreshesThenRereads ==
  [][ /\ ChangeSendsOrSkips
      /\ \A r \in requests \ requests' : r.origin = "change" => stale'
    ]_vars

\* C29 as amended: the re-read follows when the request is answered, whatever
\* its status; when the request fails without an answer nothing is re-read on
\* its account.
C29_RereadOnceAnswered ==
  [][ /\ ChangeSendsOrSkips
      /\ \A r \in requests \ requests' : r.origin = "change" =>
           /\ settled'.origin = "change"
           /\ settled'.answered => stale'
           /\ ~settled'.answered => stale' = stale
    ]_vars

\* the request sent for the change to USD has been answered and the
\* currencies are due to be read again
C29_Witness ==
  /\ selectedCurrency = "USD"
  /\ effectCurrency = "USD"
  /\ settled = [origin |-> "change", answered |-> TRUE]
  /\ requests = {}
  /\ stale

\* ---------------------------------------------------------------------------
\* C30: every update-rates request the client sends (at mount, at an hourly
\* tick, on a currency change, from refreshRates) has as baseCurrency the
\* display currency selected when it is sent.
\* ---------------------------------------------------------------------------
C30_RequestsCarrySelection ==
  [][ \A r \in requests' \ requests : r.baseCurrency = selectedCurrency' ]_vars

====
